---- MODULE Spec2Model ----
(***************************************************************************)
(* A model of github.com/zond/goaeoas: the per-method document model       *)
(* (DocType/DocField), the request-body field filter (copyJSON and         *)
(* filterJSON), the resource binder (HandleResource, createRoute,          *)
(* validateResourceFunc), link resolution and marshalling, and the request *)
(* lifecycle of Handle.                                                    *)
(***************************************************************************)
EXTENDS Integers, Sequences, FiniteSets, TLC

VARIABLES
    cTyp,       \* copyJSON: name of the type dest points to
    cDestKind,  \* copyJSON: what dest is ("ptrStruct", "struct", "ptrInt", "nil")
    cMethod,    \* copyJSON: the method argument
    cBody,      \* copyJSON: the request body, as the JSON text's value
    cDest,      \* copyJSON: the value dest points to
    cResult,    \* copyJSON: "" before the call, then "ok", "error" or "panic"
    cErr,       \* copyJSON: the error returned ("" for nil)
    router,     \* the package's router: "" for nil, else the *mux.Router given
    routes,     \* the routes registered with the router, in order
    resources,  \* the package's resources list
    regCall,    \* the last Handle or HandleResource call and how it ended
    lnk,        \* the last Link call and what it returned
    itm,        \* the last direct Item.HTMLNode call and, once it has returned,
                \* what it returned
    rq,         \* the request being served: <<>> or <<its scheme, host, decorators>>
    docs,       \* the NewDocType calls made, in order: the arguments, the error
                \* ("" for nil) and the DocType returned (<<>> for nil, else <<d>>)
    javaCall,   \* the last Resource.toJavaClasses call and what it returned
    writers,    \* the responseWriter objects allocated, by address
    requests,   \* the request objects allocated, by address
    inflight,   \* per client, the invocation of a route's function serving it
    dispatch,   \* the last run of a function createRoute registered
    nextElementID, \* the package's counter of element IDs
    rendering,  \* per client, the call in progress: the request being served,
                \* the Item.HTMLNode and the Link.HTMLNode call it is in, and
                \* the response sent to its last request
    issued,     \* the elements given an ID, in the order of the increments
    walk,       \* the NewDocType call in progress: its goroutine's call stack
    lookup,     \* the last DocType.GetField call and what it returned
    schemaCall, \* the last DocType.ToJSONSchema call and what it returned
    filters,    \* the package's filters, in order
    postProcs,  \* the package's post-processors, in order
    resp        \* the response written last, forgotten when a request arrives

copyVars == <<cTyp, cDestKind, cMethod, cBody, cDest, cResult, cErr>>

regVars == <<router, routes, resources, regCall>>

reqVars == <<filters, postProcs, resp>>

renderVars == <<nextElementID, rendering, issued>>

docVars == <<docs, schemaCall, javaCall, dispatch, lookup, walk, renderVars>>

concVars == <<writers, requests, inflight>>

vars == <<cTyp, cDestKind, cMethod, cBody, cDest, cResult, cErr, router, routes,
          resources, regCall, lnk, itm, rq, docs, schemaCall, javaCall, dispatch, lookup, walk,
          nextElementID, rendering, issued, writers,
          requests, inflight,
          filters, postProcs, resp>>

(***************************************************************************)
(* JSON values.  A number is the integer hi * 2^53 + v, so that integers   *)
(* a float64 cannot hold are values of the model.                          *)
(***************************************************************************)
Nil == [k |-> "null"]

Num(n) == [k |-> "num", v |-> n, hi |-> 0]

BigNum(n) == [k |-> "num", v |-> n, hi |-> 1]

Str(s) == [k |-> "str", v |-> s]

Arr(a) == [k |-> "arr", v |-> a]

Obj(o) == [k |-> "obj", v |-> o]

Malformed == [k |-> "malformed"]

EmptyMap == [key \in {} |-> Nil]

\* The number a JSON number is once decoded into interface{}: a float64, exact
\* up to 2^53 and, just above it, rounded to the nearest even mantissa.
Float64(x) ==
    IF x.hi = 1 /\ x.v % 2 = 1
    THEN [x EXCEPT !.v = IF x.v % 4 = 3 THEN x.v + 1 ELSE x.v - 1]
    ELSE x

(***************************************************************************)
(* Go types, as reflect sees them: kind, element type and, for a struct,   *)
(* the fields in declaration order.  A field's methods tag is kept as      *)
(* strings.Split leaves it: an absent tag is the one entry "".             *)
(***************************************************************************)
NoTag == <<"">>

Field(n, ms, j, an, t) ==
    [name |-> n, methods |-> ms, json |-> j, anon |-> an, type |-> t,
     skip |-> "", ticker |-> ""]

\* The field with the tag skip:"true", and with the tag ticker:"true".
Skip(f) == [f EXCEPT !.skip = "true"]

Ticker(f) == [f EXCEPT !.ticker = "true"]

Prim(kd) == [kind |-> kd, elem |-> "", fields |-> <<>>]

Comp(kd, el) == [kind |-> kd, elem |-> el, fields |-> <<>>]

Struct(fs) == [kind |-> "struct", elem |-> "", fields |-> fs]

TypeNames ==
    {"int", "string", "Inner", "Inner2", "Inner3", "PutOnly", "[]Inner",
     "map[string]Inner", "*Inner", "Outer", "Nest", "Holder", "Wrapper",
     "int8", "int16", "int32", "int64", "uint8", "float32", "float64", "bool",
     "*datastore.Key", "time.Time", "[]int8", "map[string]float32", "Stats",
     "time.Duration", "Address", "Member", "other.Member", "[]Member",
     "map[string]Member", "Team", "Club", "other.Club", "Link", "Page",
     "Left", "Right", "Twin"}

GoType(t) ==
    CASE t = "int" -> Prim("int")
      [] t = "string" -> Prim("string")
      [] t = "[]Inner" -> Comp("slice", "Inner")
      [] t = "map[string]Inner" -> Comp("map", "Inner")
      [] t = "*Inner" -> Comp("ptr", "Inner")
      [] t = "Inner" ->
            Struct(<<Field("A", <<"POST">>, "", FALSE, "int"),
                     Field("B", <<"PUT">>, "", FALSE, "string")>>)
      [] t = "Inner2" ->
            Struct(<<Field("A2", <<"POST">>, "", FALSE, "int"),
                     Field("B2", <<"PUT">>, "", FALSE, "string")>>)
      [] t = "Inner3" ->
            Struct(<<Field("A3", <<"POST">>, "", FALSE, "int")>>)
      [] t = "PutOnly" ->
            Struct(<<Field("B", <<"PUT">>, "", FALSE, "string")>>)
      [] t = "Outer" ->
            Struct(<<Field("Inner", <<"POST", "PUT">>, "", TRUE, "Inner"),
                     Field("Inner2", <<"POST">>, "", TRUE, "Inner2"),
                     Field("Inner3", NoTag, "", TRUE, "Inner3")>>)
      [] t = "Nest" ->
            Struct(<<Field("POSTSubStruct", <<"POST">>, "", FALSE, "Inner"),
                     Field("POSTSubStructSlice", <<"POST">>, "", FALSE, "[]Inner"),
                     Field("PUTSubStruct", <<"PUT">>, "", FALSE, "Inner")>>)
      [] t = "Holder" ->
            Struct(<<Field("Sub", <<"POST">>, "", FALSE, "PutOnly"),
                     Field("Images", <<"POST">>, "", FALSE, "map[string]Inner"),
                     Field("Ref", <<"POST">>, "", FALSE, "*Inner"),
                     Field("ID", NoTag, "", FALSE, "string"),
                     Field("Secret", <<"POST">>, "-", FALSE, "string")>>)
      [] t = "Wrapper" ->
            Struct(<<Field("Head", <<"POST", "PUT">>, "", FALSE, "int"),
                     Field("Inner", <<"POST", "PUT">>, "", TRUE, "Inner"),
                     Field("Tail", <<"POST", "PUT">>, "", FALSE, "string")>>)
      [] t = "Stats" ->
            Struct(<<Field("Count", <<"POST">>, "", FALSE, "int64"),
                     Field("Ratio", <<"POST">>, "", FALSE, "float64"),
                     Field("Flag", <<"POST">>, "", FALSE, "bool"),
                     Field("Owner", <<"POST">>, "", FALSE, "*datastore.Key"),
                     Field("At", <<"POST">>, "", FALSE, "time.Time"),
                     Field("Small", <<"PUT">>, "", FALSE, "int8"),
                     Field("Part", <<"PUT ", "PATCH">>, "", FALSE, "float32")>>)
      [] t = "time.Time" ->
            Struct(<<Field("wall", NoTag, "", FALSE, "uint64"),
                     Field("ext", NoTag, "", FALSE, "int64"),
                     Field("loc", NoTag, "", FALSE, "*time.Location")>>)
      [] t = "time.Duration" -> Prim("int64")
      [] t = "Address" ->
            Struct(<<Field("City", NoTag, "", FALSE, "string"),
                     Field("Zip", <<"PUT">>, "", FALSE, "int")>>)
      [] t = "Member" ->
            Struct(<<Field("Name", <<"PUT">>, "", FALSE, "string"),
                     Field("Addr", <<"PUT">>, "", FALSE, "Address")>>)
      [] t = "other.Member" ->
            Struct(<<Field("Nick", <<"PUT">>, "", FALSE, "string")>>)
      [] t = "[]Member" -> Comp("slice", "Member")
      [] t = "map[string]Member" -> Comp("map", "Member")
      [] t = "Team" ->
            Struct(<<Field("Lead", <<"PUT">>, "", FALSE, "Member"),
                     Field("Members", <<"PUT">>, "", FALSE, "[]Member"),
                     Field("ByName", NoTag, "", FALSE, "map[string]Member"),
                     Field("Home", NoTag, "", FALSE, "Address"),
                     Field("Created", NoTag, "", FALSE, "time.Time"),
                     Ticker(Field("Left", NoTag, "", FALSE, "time.Duration")),
                     Field("Age", NoTag, "", FALSE, "time.Duration"),
                     Skip(Field("Cache", NoTag, "", FALSE, "*Inner"))>>)
      [] t = "Club" ->
            Struct(<<Field("Lead", <<"PUT">>, "", FALSE, "Member"),
                     Field("Guest", <<"PUT">>, "", FALSE, "other.Member")>>)
      [] t = "other.Club" ->
            Struct(<<Field("Name", <<"PUT">>, "", FALSE, "string"),
                     Field("Local", <<"PUT">>, "", FALSE, "Club")>>)
      [] t = "Tree" ->
            Struct(<<Field("Name", <<"POST", "PUT">>, "", FALSE, "string"),
                     Field("Children", <<"POST">>, "-", FALSE, "[]Tree")>>)
      [] t = "[]Tree" -> Comp("slice", "Tree")
      [] t = "Node" ->
            Struct(<<Field("Value", <<"POST">>, "", FALSE, "int"),
                     Field("Next", <<"POST">>, "", FALSE, "*Node")>>)
      [] t = "*Node" -> Comp("ptr", "Node")
      [] t = "Dept" ->
            Struct(<<Field("Title", <<"POST">>, "", FALSE, "string"),
                     Field("Staff", <<"PUT">>, "", FALSE, "[]Person")>>)
      [] t = "[]Person" -> Comp("slice", "Person")
      [] t = "Person" ->
            Struct(<<Field("Dept", <<"PUT">>, "", FALSE, "Dept")>>)
      [] t = "Left" ->
            Struct(<<Field("N", <<"POST", "PUT">>, "", FALSE, "int"),
                     Field("L", <<"POST">>, "", FALSE, "string")>>)
      [] t = "Right" ->
            Struct(<<Field("R", <<"POST">>, "", FALSE, "bool"),
                     Field("N", <<"POST">>, "", FALSE, "string")>>)
      [] t = "Twin" ->
            Struct(<<Field("Left", <<"POST", "PUT">>, "", TRUE, "Left"),
                     Field("Right", <<"POST", "PUT">>, "", TRUE, "Right")>>)
      [] t = "Link" ->
            Struct(<<Field("Href", NoTag, "", FALSE, "string")>>)
      [] t = "Page" ->
            Struct(<<Field("Owner", NoTag, "", FALSE, "Address"),
                     Field("Next", NoTag, "", FALSE, "Link")>>)
      [] t = "*datastore.Key" -> Comp("ptr", "datastore.Key")
      [] t = "*time.Location" -> Comp("ptr", "time.Location")
      [] t = "[]int8" -> Comp("slice", "int8")
      [] t = "map[string]float32" -> Comp("map", "float32")
      [] t \in {"int8", "int16", "int32", "int64", "uint8", "uint64", "float32",
                "float64", "bool"} -> Prim(t)

Kind(t) == GoType(t).kind

\* reflect.Type.Name: the name inside the type's package, "" for an unnamed
\* type.
TypeName(t) ==
    CASE t = "other.Member" -> "Member"
      [] t = "other.Club" -> "Club"
      [] t = "time.Time" -> "Time"
      [] t = "time.Duration" -> "Duration"
      [] Kind(t) \in {"slice", "map", "ptr"} -> ""
      [] OTHER -> t

Elem(t) == GoType(t).elem

NumField(t) == Len(GoType(t).fields)

Range(s) == {s[i] : i \in DOMAIN s}

(***************************************************************************)
(* The document model.                                                     *)
(***************************************************************************)
\* NewDocFields taking every anonymous field, whatever its tags.
FieldFoundOrAnonymous(field, method) ==
    \/ field.anon
    \/ IF method = "GET" \/ method = ""
       THEN field.json # "-"
       ELSE \E j \in DOMAIN field.methods : field.methods[j] = method

\* NewDocFields looking the method up in the methods tag for every method, GET
\* and the empty one included.
FieldFoundInMethodsTag(field, method) ==
    \E j \in DOMAIN field.methods : field.methods[j] = method

\* Whether NewDocFields takes the field for the method: for GET and the empty
\* method every field not tagged json:"-", otherwise the fields whose methods
\* tag has the method among its entries.
FieldFound(field, method) ==
    IF method = "GET" \/ method = ""
    THEN field.json # "-"
    ELSE \E j \in DOMAIN field.methods : field.methods[j] = method

RECURSIVE NewDocFieldsFrom(_, _, _)
RECURSIVE NewDocType(_, _)

\* NewDocFields appending an anonymous field's fields after the fields that
\* follow it, instead of where the anonymous field stands.
NewDocFieldsEmbeddedLast(typ, method, i) ==
    IF i > NumField(typ) THEN <<>>
    ELSE LET Taken(field) ==
                IF ~FieldFound(field, method) THEN <<>>
                ELSE IF field.anon
                     THEN NewDocFieldsFrom(field.type, method, 1)
                     ELSE <<[Name |-> field.name,
                             Type |-> NewDocType(field.type, method),
                             field |-> field]>>
             Placed(field, rest) ==
                IF field.anon THEN rest \o Taken(field) ELSE Taken(field) \o rest
         IN  Placed(GoType(typ).fields[i], NewDocFieldsFrom(typ, method, i + 1))

\* NewDocFields' loop from field i on.  An anonymous field's own fields are
\* spliced in, a named field becomes one DocField.
NewDocFieldsFrom(typ, method, i) ==
    IF i > NumField(typ) THEN <<>>
    ELSE LET Taken(field) ==
                IF ~FieldFound(field, method) THEN <<>>
                ELSE IF field.anon
                     THEN NewDocFieldsFrom(field.type, method, 1)
                     ELSE <<[Name |-> field.name,
                             Type |-> NewDocType(field.type, method),
                             field |-> field]>>
         IN  Taken(GoType(typ).fields[i]) \o NewDocFieldsFrom(typ, method, i + 1)

NewDocFields(typ, method) == NewDocFieldsFrom(typ, method, 1)

\* A DocType; Elem is <<>> for nil and <<d>> for a pointer to d.
NewDocType(typ, method) ==
    LET Of(kd) ==
            [Name |-> typ, Kind |-> kd, typ |-> typ, method |-> method,
             Fields |-> IF kd = "struct" THEN NewDocFields(typ, method) ELSE <<>>,
             Elem |-> IF kd = "slice" THEN <<NewDocType(Elem(typ), method)>> ELSE <<>>]
    IN  Of(Kind(typ))

RECURSIVE NewDocFieldsErr(_, _, _)
RECURSIVE NewDocTypeErr(_, _)

\* The error NewDocFields returns ("" for nil): the first one that building
\* a taken field's DocType, or an anonymous field's fields, returned.
NewDocFieldsErr(typ, method, i) ==
    IF i > NumField(typ) THEN ""
    ELSE LET Of(field) ==
                IF ~FieldFound(field, method) THEN ""
                ELSE IF field.anon
                     THEN NewDocFieldsErr(field.type, method, 1)
                     ELSE NewDocTypeErr(field.type, method)
             Then(err) ==
                IF err # "" THEN err ELSE NewDocFieldsErr(typ, method, i + 1)
         IN  Then(Of(GoType(typ).fields[i]))

\* The error NewDocType returns ("" for nil): that of the fields of a struct
\* or of the element of a slice; NewDocType makes none of its own.
NewDocTypeErr(typ, method) ==
    LET Of(kd) ==
            IF kd = "struct" THEN NewDocFieldsErr(typ, method, 1)
            ELSE IF kd = "slice" THEN NewDocTypeErr(Elem(typ), method)
            ELSE ""
    IN  Of(Kind(typ))

\* DocType.GetField: <<>> when no field has the name, else the first that has.
GetField(d, n) ==
    LET hits == {i \in DOMAIN d.Fields : d.Fields[i].Name = n}
    IN  IF hits = {} THEN <<>>
        ELSE <<d.Fields[CHOOSE i \in hits : \A j \in hits : i <= j]>>

(***************************************************************************)
(* filterJSON: the keys of m that name no field of the document type are   *)
(* deleted; below a field whose document type has fields the value is      *)
(* asserted to be an object and filtered; below a field whose element type *)
(* has fields the value is asserted to be an array of objects and each is  *)
(* filtered.  A failed type assertion panics.  The result is the filtered  *)
(* map and whether the call panicked.                                      *)
(***************************************************************************)
RECURSIVE filterJSON(_, _, _)

\* One iteration of filterJSON's loop: whether the key stays, its value
\* afterwards, and whether the iteration panicked.
FilterKey(docType, key, value, method) ==
    LET Sub(r) == [keep |-> TRUE, val |-> Obj(r.m), panic |-> r.panic]
        Elems(rs) ==
            IF \E i \in DOMAIN rs : rs[i].panic
            THEN [keep |-> TRUE, val |-> value, panic |-> TRUE]
            ELSE [keep |-> TRUE, panic |-> FALSE,
                  val |-> Arr([i \in DOMAIN rs |-> Obj(rs[i].m)])]
        Found(f) ==
            IF f = <<>> THEN [keep |-> FALSE, val |-> value, panic |-> FALSE]
            ELSE IF Len(f[1].Type.Fields) > 0
            THEN IF value.k # "obj" THEN [keep |-> TRUE, val |-> value, panic |-> TRUE]
                 ELSE Sub(filterJSON(f[1].Type.typ, value.v, method))
            ELSE IF f[1].Type.Elem # <<>> /\ Len(f[1].Type.Elem[1].Fields) > 0
            THEN IF value.k # "arr" THEN [keep |-> TRUE, val |-> value, panic |-> TRUE]
                 ELSE Elems([i \in DOMAIN value.v |->
                                IF value.v[i].k # "obj"
                                THEN [m |-> EmptyMap, panic |-> TRUE]
                                ELSE filterJSON(f[1].Type.Elem[1].typ, value.v[i].v,
                                                method)])
            ELSE [keep |-> TRUE, val |-> value, panic |-> FALSE]
    IN  Found(GetField(docType, key))

\* filterJSON without the delete of the keys that name no field.
filterJSONKeepAll(typ, m, method) ==
    LET Loop(its) ==
            [m |-> [key \in DOMAIN m |-> its[key].val],
             panic |-> \E key \in DOMAIN m : its[key].panic]
        Over(docType) ==
            Loop([key \in DOMAIN m |-> FilterKey(docType, key, m[key], method)])
    IN  Over(NewDocType(typ, method))

filterJSON(typ, m, method) ==
    LET Loop(its) ==
            [m |-> [key \in {k2 \in DOMAIN m : its[k2].keep} |-> its[key].val],
             panic |-> \E key \in DOMAIN m : its[key].panic]
        Over(docType) ==
            Loop([key \in DOMAIN m |-> FilterKey(docType, key, m[key], method)])
    IN  Over(NewDocType(typ, method))

(***************************************************************************)
(* encoding/json, as far as copyJSON uses it.                              *)
(***************************************************************************)
\* The names the model's payloads use, in the byte order json.Marshal writes
\* the keys of a map in.
KeyOrder ==
    <<"A", "A2", "A3", "B", "B2", "ID", "Images", "Inner2", "POSTSubStruct",
      "POSTSubStructSlice", "PUTSubStruct", "Ref", "Secret", "Sub", "Unknown", "id">>

\* strings.EqualFold on those names.
EqualFold(a, b) == a = b \/ {a, b} = {"ID", "id"}

RECURSIVE Zero(_)

\* The zero value of a type: a nil slice, map or pointer is Nil.
Zero(typ) ==
    LET Fields(fs) ==
            Obj([n \in {fs[i].name : i \in DOMAIN fs} |->
                    Zero(fs[CHOOSE i \in DOMAIN fs : fs[i].name = n].type)])
        Of(t) ==
            CASE t.kind = "int" -> Num(0)
              [] t.kind = "string" -> Str("")
              [] t.kind = "struct" -> Fields(t.fields)
              [] OTHER -> Nil
    IN  Of(GoType(typ))

RECURSIVE JSONFieldsFrom(_, _, _)

\* The fields encoding/json sees in a struct, from field i on: a field tagged
\* json:"-" is left out, the fields of an embedded struct are promoted.  path
\* leads from the struct to the field.
JSONFieldsFrom(typ, i, path) ==
    IF i > NumField(typ) THEN <<>>
    ELSE LET Seen(field) ==
                IF field.json = "-" THEN <<>>
                ELSE IF field.anon /\ Kind(field.type) = "struct"
                     THEN JSONFieldsFrom(field.type, 1, path \o <<field.name>>)
                     ELSE <<[name |-> field.name, path |-> path \o <<field.name>>,
                             type |-> field.type]>>
         IN  Seen(GoType(typ).fields[i]) \o JSONFieldsFrom(typ, i + 1, path)

\* Go's dominance rule: of the fields with one name the shallowest is taken, and
\* none of them when several are the shallowest.
JSONFields(typ) ==
    LET Dominant(all) ==
            LET dominant(i) ==
                    \A j \in DOMAIN all :
                        (all[j].name = all[i].name /\ j # i)
                            => Len(all[i].path) < Len(all[j].path)
            IN  SelectSeq([i \in DOMAIN all |-> [all[i] EXCEPT !.name =
                                IF dominant(i) THEN all[i].name ELSE ""]],
                          LAMBDA f : f.name # "")
    IN  Dominant(JSONFieldsFrom(typ, 1, <<>>))

\* The field a key decodes into: the one of that name, else the first whose
\* name matches the key case-insensitively; <<>> when there is none.
JSONFieldFor(typ, key) ==
    LET First(fs, S) == IF S = {} THEN <<>> ELSE <<fs[CHOOSE i \in S : \A j \in S : i <= j]>>
        Among(fs) ==
            IF \E i \in DOMAIN fs : fs[i].name = key
            THEN First(fs, {i \in DOMAIN fs : fs[i].name = key})
            ELSE First(fs, {i \in DOMAIN fs : EqualFold(fs[i].name, key)})
    IN  Among(JSONFields(typ))

RECURSIVE Unmarshal(_, _, _)
RECURSIVE UnmarshalAt(_, _, _, _)
RECURSIVE UnmarshalKeys(_, _, _, _)

\* json.Unmarshal of the value v into cur, a value of type typ: the value
\* afterwards and whether an UnmarshalTypeError was saved.  A value of the wrong
\* kind leaves its target as it was and decoding goes on.
Unmarshal(typ, cur, v) ==
    LET mismatch == [val |-> cur, err |-> TRUE]
        Elems(rs) == [val |-> Arr([i \in DOMAIN rs |-> rs[i].val]),
                      err |-> \E i \in DOMAIN rs : rs[i].err]
        Entries(old, rs) ==
            [val |-> Obj([key \in DOMAIN old \cup DOMAIN rs |->
                            IF key \in DOMAIN rs THEN rs[key].val ELSE old[key]]),
             err |-> \E key \in DOMAIN rs : rs[key].err]
        Into(kd, el) ==
            IF v = Nil
            THEN [val |-> IF kd \in {"slice", "map", "ptr"} THEN Nil ELSE cur,
                  err |-> FALSE]
            ELSE CASE kd = "int" ->
                        IF v.k = "num" THEN [val |-> v, err |-> FALSE] ELSE mismatch
                   [] kd = "string" ->
                        IF v.k = "str" THEN [val |-> v, err |-> FALSE] ELSE mismatch
                   [] kd = "struct" ->
                        IF v.k = "obj" THEN UnmarshalKeys(typ, cur, v.v, 1) ELSE mismatch
                   [] kd = "slice" ->
                        IF v.k = "arr"
                        THEN Elems([i \in DOMAIN v.v |-> Unmarshal(el, Zero(el), v.v[i])])
                        ELSE mismatch
                   [] kd = "map" ->
                        IF v.k = "obj"
                        THEN Entries(IF cur = Nil THEN EmptyMap ELSE cur.v,
                                     [key \in DOMAIN v.v |->
                                        Unmarshal(el, Zero(el), v.v[key])])
                        ELSE mismatch
                   [] kd = "ptr" ->
                        Unmarshal(el, IF cur = Nil THEN Zero(el) ELSE cur, v)
    IN  Into(Kind(typ), Elem(typ))

\* Decoding v into the field that path leads to inside cur, a struct of type typ.
UnmarshalAt(typ, cur, path, v) ==
    LET Put(r) == [val |-> Obj([cur.v EXCEPT ![path[1]] = r.val]), err |-> r.err]
        TypeOf(fs) == fs[CHOOSE i \in DOMAIN fs : fs[i].name = path[1]].type
        At(ftyp) ==
            IF Len(path) = 1
            THEN Put(Unmarshal(ftyp, cur.v[path[1]], v))
            ELSE Put(UnmarshalAt(ftyp, cur.v[path[1]], Tail(path), v))
    IN  At(TypeOf(GoType(typ).fields))

\* The object m decoded into the struct cur, key by key in the order of the
\* text, from the i-th name of KeyOrder on.  A key that matches no field is
\* skipped.
UnmarshalKeys(typ, cur, m, i) ==
    IF i > Len(KeyOrder) THEN [val |-> cur, err |-> FALSE]
    ELSE LET Both(r, rest) == [val |-> rest.val, err |-> r.err \/ rest.err]
             Then(r) == Both(r, UnmarshalKeys(typ, r.val, m, i + 1))
             Key(key, f) ==
                IF f = <<>>
                THEN UnmarshalKeys(typ, cur, m, i + 1)
                ELSE Then(UnmarshalAt(typ, cur, f[1].path, m[key]))
         IN  IF KeyOrder[i] \notin DOMAIN m
             THEN UnmarshalKeys(typ, cur, m, i + 1)
             ELSE Key(KeyOrder[i], JSONFieldFor(typ, KeyOrder[i]))

RECURSIVE Decoded(_)

\* A JSON value decoded into interface{}: every number becomes a float64.
Decoded(v) ==
    CASE v.k = "num" -> Float64(v)
      [] v.k = "arr" -> Arr([i \in DOMAIN v.v |-> Decoded(v.v[i])])
      [] v.k = "obj" -> Obj([key \in DOMAIN v.v |-> Decoded(v.v[key])])
      [] OTHER -> v

(***************************************************************************)
(* copyJSON.                                                               *)
(***************************************************************************)
\* The result of copyJSON(dest, b, method): "ok" with a nil error, "error" with
\* the error returned, or "panic"; and the value dest points to afterwards.
copyJSON(destKind, typ, dest, body, method) ==
    IF body = Malformed
    THEN [result |-> "error", err |-> "invalid character", dest |-> dest]
    ELSE IF body.k \notin {"obj", "null"}
    THEN [result |-> "error", err |-> "cannot unmarshal into map", dest |-> dest]
    ELSE IF destKind # "ptrStruct"
    THEN [result |-> "error", err |-> "can only copy to pointer to struct", dest |-> dest]
    ELSE LET Decode(u) ==
                IF u.err
                THEN [result |-> "error", err |-> "cannot unmarshal into Go value",
                      dest |-> u.val]
                ELSE [result |-> "ok", err |-> "", dest |-> u.val]
             Filtered(f) ==
                IF f.panic THEN [result |-> "panic", err |-> "", dest |-> dest]
                ELSE Decode(Unmarshal(typ, dest, Obj(f.m)))
         IN  Filtered(filterJSON(typ, IF body = Nil THEN EmptyMap ELSE Decoded(body).v,
                                 method))

(***************************************************************************)
(* The inputs copyJSON is checked on.                                      *)
(***************************************************************************)
MaxKeys == 2

DestTypes == {"Outer", "Nest", "Holder"}

CopyMethods == {"POST", "PUT", "GET"}

ObjAB == Obj([key \in {"A", "B"} |-> IF key = "A" THEN Num(1) ELSE Str("x")])

InnerObjs ==
    {Obj(EmptyMap), Obj([key \in {"A"} |-> Num(1)]), Obj([key \in {"B"} |-> Str("x")]), ObjAB}

CompoundValues ==
    InnerObjs \cup {Num(1), Nil, Arr(<<>>), Arr(<<ObjAB>>), Arr(<<Num(1)>>),
                    Obj([key \in {"A"} |-> ObjAB])}

PayloadKeys(typ) ==
    CASE typ = "Outer" -> {"A", "B", "A2", "B2", "A3", "Inner2"}
      [] typ = "Nest" -> {"POSTSubStruct", "POSTSubStructSlice", "PUTSubStruct", "Unknown"}
      [] typ = "Holder" -> {"Sub", "Images", "Ref", "ID", "id", "Secret"}

\* The values a payload gives a key: of the field's kind and of other kinds.
ValuesFor(key) ==
    CASE key \in {"A", "A2", "A3"} -> {Num(1), BigNum(1), Str("x")}
      [] key \in {"B", "B2", "ID", "Secret"} -> {Str("x"), Num(1)}
      [] key \in {"id"} -> {Str("y")}
      [] key \in {"Unknown", "Inner2"} -> {Num(1), ObjAB}
      [] OTHER -> CompoundValues

AllValues == UNION {ValuesFor(KeyOrder[i]) : i \in DOMAIN KeyOrder}

\* The JSON objects with at most MaxKeys keys.
Payloads(typ) ==
    LET keysets == {S \in SUBSET PayloadKeys(typ) : Cardinality(S) <= MaxKeys}
    IN  UNION {{Obj(m) : m \in {g \in [S -> AllValues] : \A key \in S : g[key] \in ValuesFor(key)}}
               : S \in keysets}

(***************************************************************************)
(* Properties of copyJSON.                                                 *)
(***************************************************************************)
\* Whether the field's methods tag names the method.
Tagged(field, method) == \E j \in DOMAIN field.methods : field.methods[j] = method

FieldsOf(typ) == Range(GoType(typ).fields)

CopyDone == cResult # "" /\ cDestKind = "ptrStruct" /\ cBody.k = "obj"

RECURSIVE OnlyTaggedSet(_, _, _)

\* No field whose methods tag lacks the method differs from its zero value, at
\* any depth of val, a value of type typ.
OnlyTaggedSet(typ, val, method) ==
    CASE Kind(typ) = "struct" ->
            \A f \in FieldsOf(typ) :
                IF Tagged(f, method)
                THEN OnlyTaggedSet(f.type, val.v[f.name], method)
                ELSE val.v[f.name] = Zero(f.type)
      [] Kind(typ) = "slice" ->
            val = Nil \/ \A i \in DOMAIN val.v : OnlyTaggedSet(Elem(typ), val.v[i], method)
      [] Kind(typ) = "map" ->
            val = Nil \/ \A key \in DOMAIN val.v : OnlyTaggedSet(Elem(typ), val.v[key], method)
      [] Kind(typ) = "ptr" ->
            val = Nil \/ OnlyTaggedSet(Elem(typ), val, method)
      [] OTHER -> TRUE

\* C1: after copyJSON(dest, payload, M) returned without error, no field of dest
\* whose methods tag lacks M holds a value taken from the payload, at any
\* nesting depth: dest started as the zero value, and every such field still
\* is zero (M is POST or PUT).
C1_NoFieldLackingTheMethodIsSet ==
    (CopyDone /\ cResult = "ok" /\ cMethod \in {"POST", "PUT"})
        => OnlyTaggedSet(cTyp, cDest, cMethod)

RECURSIVE Strip(_, _, _)

\* The payload object m without the keys that are no visible field of typ for
\* the method, at every nesting level: in sub-structs and in the elements of
\* slices of sub-structs.
Strip(typ, m, method) ==
    LET docType == NewDocType(typ, method)
        visible == {key \in DOMAIN m : GetField(docType, key) # <<>>}
        ftyp(key) == GetField(docType, key)[1].Type.typ
        sub(t, v) == IF Kind(t) = "struct" /\ v.k = "obj"
                     THEN Obj(Strip(t, v.v, method)) ELSE v
    IN  [key \in visible |->
            IF Kind(ftyp(key)) = "slice" /\ m[key].k = "arr"
            THEN Arr([i \in DOMAIN m[key].v |-> sub(Elem(ftyp(key)), m[key].v[i])])
            ELSE sub(ftyp(key), m[key])]

\* C2: copyJSON(dest, payload, M) leaves in dest what decoding the payload
\* directly leaves there once every key that is not an M-visible field has been
\* removed from it at every nesting level.
C2_SameAsDecodingTheStrippedPayload ==
    (CopyDone /\ cResult = "ok" /\ cMethod \in {"POST", "PUT"})
        => cDest = Unmarshal(cTyp, Zero(cTyp), Obj(Strip(cTyp, cBody.v, cMethod))).val

\* The value v is one json.Unmarshal stores in a field of type typ.
WellTyped(typ, v) == v # Nil /\ ~Unmarshal(typ, Zero(typ), v).err

Embedded(typ) == {f \in FieldsOf(typ) : f.anon}

\* The payload gave the inner field f of the embedded struct e a value, and dest
\* holds it.
Populated(e, f) ==
    /\ f.name \in DOMAIN cBody.v
    /\ cDest.v[e.name].v[f.name] = Decoded(cBody.v[f.name])

Without(m, key) == [k2 \in DOMAIN m \ {key} |-> m[k2]]

\* C3, as stated: a key of the payload that names an inner field F of an
\* embedded struct populates F exactly when F is tagged M.
C3_InnerFieldVisibleIffTagged ==
    (CopyDone /\ cResult = "ok" /\ cMethod \in {"POST", "PUT"}) =>
        \A e \in Embedded(cTyp) : \A f \in FieldsOf(e.type) :
            (f.name \in DOMAIN cBody.v /\ WellTyped(f.type, cBody.v[f.name]))
                => (Populated(e, f) <=> Tagged(f, cMethod))

\* Whether the claim has the field taken for the method: tagged with it, and
\* for GET not tagged json:"-".
TakenFor(field, method) ==
    IF method = "GET" THEN field.json # "-" ELSE Tagged(field, method)

\* C3, amended: a key of the payload that names an inner field F of an embedded
\* struct populates F exactly when the embedded field and F are both taken for
\* M (both tagged M; for GET, neither tagged json:"-"), and otherwise F keeps
\* its zero value; a key that names the embedded struct itself changes nothing.
C3_InnerFieldVisibleIffBothTagged ==
    (CopyDone /\ cResult = "ok") =>
        \A e \in Embedded(cTyp) :
            /\ \A f \in FieldsOf(e.type) :
                (f.name \in DOMAIN cBody.v /\ WellTyped(f.type, cBody.v[f.name])) =>
                    IF TakenFor(e, cMethod) /\ TakenFor(f, cMethod)
                    THEN Populated(e, f)
                    ELSE cDest.v[e.name].v[f.name] = Zero(f.type)
            /\ e.name \in DOMAIN cBody.v =>
                copyJSON(cDestKind, cTyp, Zero(cTyp), Obj(Without(cBody.v, e.name)), cMethod)
                    = [result |-> cResult, err |-> cErr, dest |-> cDest]

\* The example of the specification: Inner{A POST, B PUT} embedded for both
\* methods, payload {"A":1,"B":"x"}, method PUT: only B is set.
C3_Witness ==
    /\ cResult = "ok" /\ cTyp = "Outer" /\ cMethod = "PUT" /\ cBody = ObjAB
    /\ cDest.v["Inner"].v["B"] = Str("x")
    /\ cDest.v["Inner"].v["A"] = Num(0)

\* C4: copyJSON returns, with or without an error, for every payload: it never
\* panics.
C4_NeverPanics == cResult # "panic"

\* C5: a payload key that names no visible field of the destination type for
\* the method is removed silently: copyJSON returns what it returns for the
\* payload without that key, the same result, error and dest.
C5_UnknownKeyDroppedSilently ==
    CopyDone =>
        \A key \in DOMAIN cBody.v :
            GetField(NewDocType(cTyp, cMethod), key) = <<>> =>
                copyJSON(cDestKind, cTyp, Zero(cTyp), Obj(Without(cBody.v, key)), cMethod)
                    = [result |-> cResult, err |-> cErr, dest |-> cDest]

\* A payload with a key that names no visible field and a key that is decoded.
C5_Witness ==
    /\ CopyDone /\ cResult = "ok" /\ cDest # Zero(cTyp)
    /\ \E key \in DOMAIN cBody.v : GetField(NewDocType(cTyp, cMethod), key) = <<>>

(***************************************************************************)
(* The resource binder.  A string the code builds is the sequence of its   *)
(* parts: "/User/{id}" is <<"/", "User", "/{id}">> and "User.Load" is      *)
(* <<"User", ".", "Load">>.                                                *)
(***************************************************************************)
ResourceMethods == <<"Create", "Update", "Delete", "Load">>

\* Method.HTTPMethod.
HTTPMethod(meth) ==
    CASE meth = "Create" -> "POST"
      [] meth = "Update" -> "PUT"
      [] meth = "Delete" -> "DELETE"
      [] meth = "Load" -> "GET"
      [] OTHER -> "UNKNOWN"

\* A handler as reflect sees it: a nil interface, a func with its parameter and
\* result types, or a value of another kind.
NoFunc == [kind |-> "nil", in |-> <<>>, out |-> <<>>]

Func(in, out) == [kind |-> "func", in |-> in, out |-> out]

NotAFunc == [kind |-> "int", in |-> <<>>, out |-> <<>>]

\* reflect.Type.Implements for the four interfaces validateResourceFunc asks
\* about.  *User and *Game have an Item method, Game has it on the value too.
ImplementsResponseWriter(t) == t = "ResponseWriter"

ImplementsRequest(t) == t = "Request"

ImplementsItemer(t) == t \in {"*User", "*Game", "Game"}

ImplementsError(t) == t = "error"

\* The loop that takes the pointers off the first result type.
Deref(t) ==
    CASE t = "*User" -> "User"
      [] t = "*Game" -> "Game"
      [] OTHER -> t

\* validateResourceFunc without the comparison with needType.
validateAnyType(f, needType) ==
    LET bad(msg) == [panic |-> msg, returnType |-> ""]
    IN  IF f.kind # "func" THEN bad("isn't a func")
        ELSE IF Len(f.in) # 2 THEN bad("isn't a func with two params")
        ELSE IF ~ImplementsResponseWriter(f.in[1])
        THEN bad("isn't a func with a ResponseWriter as its first param")
        ELSE IF ~ImplementsRequest(f.in[2])
        THEN bad("isn't a func with a Request as its second param")
        ELSE IF Len(f.out) # 2 THEN bad("isn't a func with two return values")
        ELSE IF ~ImplementsItemer(f.out[1])
        THEN bad("isn't a func with Itemer as its first return value")
        ELSE IF ~ImplementsError(f.out[2])
        THEN bad("isn't a func with error as its second return value")
        ELSE [panic |-> "", returnType |-> Deref(f.out[1])]

\* validateResourceFunc without the check of the first result.
validateAnyResult(f, needType) ==
    LET bad(msg) == [panic |-> msg, returnType |-> ""]
    IN  IF f.kind # "func" THEN bad("isn't a func")
        ELSE IF Len(f.in) # 2 THEN bad("isn't a func with two params")
        ELSE IF ~ImplementsResponseWriter(f.in[1])
        THEN bad("isn't a func with a ResponseWriter as its first param")
        ELSE IF ~ImplementsRequest(f.in[2])
        THEN bad("isn't a func with a Request as its second param")
        ELSE IF Len(f.out) # 2 THEN bad("isn't a func with two return values")
        ELSE IF ~ImplementsError(f.out[2])
        THEN bad("isn't a func with error as its second return value")
        ELSE IF needType # "" /\ needType # Deref(f.out[1])
        THEN bad("not the same resource type")
        ELSE [panic |-> "", returnType |-> Deref(f.out[1])]

\* validateResourceFunc: the panic it raises ("" for none) and the type it
\* returns.  needType is "" for nil.
validateResourceFunc(f, needType) ==
    LET bad(msg) == [panic |-> msg, returnType |-> ""]
    IN  IF f.kind # "func" THEN bad("isn't a func")
        ELSE IF Len(f.in) # 2 THEN bad("isn't a func with two params")
        ELSE IF ~ImplementsResponseWriter(f.in[1])
        THEN bad("isn't a func with a ResponseWriter as its first param")
        ELSE IF ~ImplementsRequest(f.in[2])
        THEN bad("isn't a func with a Request as its second param")
        ELSE IF Len(f.out) # 2 THEN bad("isn't a func with two return values")
        ELSE IF ~ImplementsItemer(f.out[1])
        THEN bad("isn't a func with Itemer as its first return value")
        ELSE IF ~ImplementsError(f.out[2])
        THEN bad("isn't a func with error as its second return value")
        ELSE IF needType # "" /\ needType # Deref(f.out[1])
        THEN bad("not the same resource type")
        ELSE [panic |-> "", returnType |-> Deref(f.out[1])]

\* Resource.resourceFunc.
resourceFunc(re, meth) ==
    CASE meth = "Create" -> re.Create
      [] meth = "Update" -> re.Update
      [] meth = "Delete" -> re.Delete
      [] meth = "Load" -> re.Load

\* Resource.Route without the method's name.
RouteOfType(re, meth) == <<re.Type>>

\* Resource.Route.
Route(re, meth) == <<re.Type, ".", meth>>

\* Handle taking whichever router it is given.
HandleOnAnyRouter(s, ro, pattern, methods, routeName, f) ==
    [s EXCEPT !.router = ro,
              !.routes = Append(@, [name |-> routeName, pattern |-> pattern,
                                    methods |-> methods, f |-> f])]

\* The registration part of Handle on the state s = [router, routes, ...]: the
\* first router given becomes the package's router, another one panics, and the
\* route is added to the router under its name.
Handle(s, ro, pattern, methods, routeName, f) ==
    IF s.router # "" /\ s.router # ro
    THEN [s EXCEPT !.panic = "only one *mux.Router allowed"]
    ELSE [s EXCEPT !.router = ro,
                   !.routes = Append(@, [name |-> routeName, pattern |-> pattern,
                                         methods |-> methods, f |-> f])]

\* createRoute on the state s = [router, routes, re, rType, panic].
createRoute(s, ro, meth) ==
    LET WithCreatePath(re, rType) ==
            IF re.CreatePath = <<>> THEN [re EXCEPT !.CreatePath = <<"/", rType>>] ELSE re
        WithFullPath(re) ==
            IF re.FullPath = <<>>
            THEN [re EXCEPT !.FullPath = re.CreatePath \o <<"/{id}">>] ELSE re
        Routed(re, rType) ==
            Handle([s EXCEPT !.re = re, !.rType = rType], ro,
                   IF meth = "Create" THEN re.CreatePath ELSE re.FullPath,
                   <<HTTPMethod(meth)>>, Route(re, meth),
                   [kind |-> "resource", meth |-> meth])
        Validated(v) ==
            IF v.panic # "" THEN [s EXCEPT !.panic = v.panic]
            ELSE Routed(WithFullPath(WithCreatePath([s.re EXCEPT !.Type = v.returnType],
                                                    v.returnType)),
                        v.returnType)
    IN  Validated(validateResourceFunc(resourceFunc(s.re, meth), s.rType))

RECURSIVE HandleListers(_, _, _)

\* HandleResource's loop over the listers, from the i-th on.
HandleListers(s, ro, i) ==
    IF s.panic # "" \/ i > Len(s.re.Listers) THEN s
    ELSE HandleListers(Handle(s, ro, s.re.Listers[i].Path, <<"GET">>,
                              s.re.Listers[i].Route, [kind |-> "lister", meth |-> ""]),
                       ro, i + 1)

\* HandleResource on the state s = [router, routes, resources]: the state
\* afterwards, with the resource as the call left it and the panic raised.
HandleResource(s, ro, re) ==
    LET step(st, meth) ==
            IF st.panic # "" \/ resourceFunc(st.re, meth) = NoFunc THEN st
            ELSE createRoute(st, ro, meth)
        Done(st) ==
            [router |-> st.router, routes |-> st.routes, re |-> st.re,
             panic |-> st.panic,
             resources |-> IF st.panic = "" THEN Append(s.resources, st.re)
                           ELSE s.resources]
    IN  Done(HandleListers(
                step(step(step(step([router |-> s.router, routes |-> s.routes,
                                     re |-> re, rType |-> "", panic |-> ""],
                                    "Create"), "Update"), "Delete"), "Load"),
                ro, 1))

(***************************************************************************)
(* The schema projection.                                                  *)
(***************************************************************************)
keyType == "*datastore.Key"

timeType == "time.Time"

Schema(t) == [Type |-> t, Properties |-> EmptyMap, AdditionalProperties |-> <<>>,
              Items |-> <<>>, Title |-> ""]

RECURSIVE ToJSONSchema(_)

\* DocType.ToJSONSchema: the error ("" for nil) and the schema.  The properties
\* of a struct are a map keyed by field name: of two fields with one name the
\* later one stays.
ToJSONSchema(d) ==
    LET fail == [err |-> "Untranslatable Go Type", typ |-> d.typ, schema |-> Schema("")]
        ok(sch) == [err |-> "", typ |-> "", schema |-> sch]
        kd == Kind(d.typ)
    IN  CASE kd = "ptr" -> IF d.typ = keyType THEN ok(Schema("string")) ELSE fail
          [] kd = "map" ->
                LET r == ToJSONSchema(NewDocType(Elem(d.typ), d.method))
                IN  IF r.err # "" THEN r
                    ELSE ok([Schema("object") EXCEPT !.AdditionalProperties = <<r.schema>>])
          [] kd = "bool" -> ok(Schema("boolean"))
          [] kd = "string" -> ok(Schema("string"))
          [] kd = "struct" ->
                IF d.typ = timeType THEN ok(Schema("datetime"))
                ELSE LET r(i) == ToJSONSchema(d.Fields[i].Type)
                         bad == {i \in DOMAIN d.Fields : r(i).err # ""}
                         last(n) == CHOOSE i \in DOMAIN d.Fields :
                                        /\ d.Fields[i].Name = n
                                        /\ \A j \in DOMAIN d.Fields :
                                                d.Fields[j].Name = n => j <= i
                     IN  IF bad # {}
                         THEN r(CHOOSE i \in bad : \A j \in bad : i <= j)
                         ELSE ok([Schema("object") EXCEPT !.Properties =
                                    [n \in {d.Fields[i].Name : i \in DOMAIN d.Fields} |->
                                        [r(last(n)).schema EXCEPT !.Title = n]]])
          [] kd = "slice" ->
                LET r == ToJSONSchema(d.Elem[1])
                IN  IF r.err # "" THEN r
                    ELSE ok([Schema("array") EXCEPT !.Items = <<r.schema>>])
          [] kd \in {"int64", "int32", "int"} -> ok(Schema("integer"))
          [] kd = "float64" -> ok(Schema("number"))
          [] OTHER -> fail

(***************************************************************************)
(* The Java projection.  A class text is modelled by what varies in it: the *)
(* class name and the member lines, each a Java type (as a sequence of     *)
(* tokens) and a name.  The classes map is carried with the list of the    *)
(* assignments javaClasses[name] = text made for types, in order.          *)
(***************************************************************************)
durationType == "time.Duration"

JavaClass(name, members) == [class |-> name, members |-> members]

Member(javaType, name) == [type |-> javaType, name |-> name]

HelperNames ==
    {"TickerUnserializer", "Ticker", "Link", "SingleContainer", "MultiContainer"}

HelperClass(name) ==
    LET common == <<Member(<<"java.util.List<", "Link", ">">>, "Links"),
                    Member(<<"String">>, "name"),
                    Member(<<"java.util.List<", "java.util.List<", "String", ">", ">">>,
                           "Desc")>>
    IN  CASE name = "TickerUnserializer" -> JavaClass(name, <<>>)
          [] name = "Ticker" ->
                JavaClass(name, <<Member(<<"Long">>, "nanos"),
                                  Member(<<"Date">>, "unserializedAt")>>)
          [] name = "Link" ->
                JavaClass(name, <<Member(<<"String">>, "Rel"),
                                  Member(<<"String">>, "URL"),
                                  Member(<<"String">>, "Method")>>)
          [] name = "SingleContainer" ->
                JavaClass(name, <<Member(<<"T">>, "Properties")>> \o common)
          [] name = "MultiContainer" ->
                JavaClass(name,
                          <<Member(<<"java.util.List<", "SingleContainer<", "T", ">", ">">>,
                                   "Properties")>> \o common)

NoClasses == [classes |-> [n \in {} |-> JavaClass("", <<>>)], emitted |-> <<>>]

\* The end of populateJavaClasses: the class of the type is stored under the
\* type's name, then each helper class whose name is not yet in the map.
StoreClass(jc, typ, members) ==
    LET Stored(classes) ==
            [n \in DOMAIN classes \cup HelperNames |->
                IF n \in DOMAIN classes THEN classes[n] ELSE HelperClass(n)]
    IN  [classes |-> Stored((TypeName(typ) :> JavaClass(TypeName(typ), members))
                                @@ jc.classes),
         emitted |-> Append(jc.emitted,
                            [name |-> TypeName(typ), of |-> typ,
                             class |-> JavaClass(TypeName(typ), members)])]

RECURSIVE populateJavaClasses(_, _, _)
RECURSIVE JavaMembersFrom(_, _, _, _, _)
RECURSIVE javaTypeFor(_, _, _, _)

\* DocType.javaTypeFor: the map after the call, the Java type, and the error
\* ("" for nil) with the type it names.  The key of every map type of the
\* model is string.
javaTypeFor(jc, t, meth, ticker) ==
    LET ok(java) == [jc |-> jc, java |-> java, err |-> "", typ |-> ""]
        fail == [jc |-> jc, java |-> <<>>, err |-> "Untranslatable Go Type", typ |-> t]
        Listed(r) ==
            IF r.err # "" THEN r
            ELSE [r EXCEPT !.java = <<"java.util.List<">> \o r.java \o <<">">>]
        Mapped(k, v) ==
            IF v.err # "" THEN v
            ELSE [v EXCEPT !.java = <<"Map<">> \o k.java \o <<",">> \o v.java \o <<">">>]
        MapOf(k) ==
            IF k.err # "" THEN k ELSE Mapped(k, javaTypeFor(k.jc, Elem(t), meth, ""))
        Classed(r) ==
            [jc |-> r.jc, java |-> IF r.err # "" THEN <<>> ELSE <<TypeName(t)>>,
             err |-> r.err, typ |-> r.typ]
        Of(kd) ==
            CASE kd = "ptr" -> IF t = keyType THEN ok(<<"String">>) ELSE fail
              [] kd = "map" -> MapOf(javaTypeFor(jc, "string", meth, ""))
              [] kd = "bool" -> ok(<<"Boolean">>)
              [] kd = "string" -> ok(<<"String">>)
              [] kd = "struct" ->
                    IF t = timeType THEN ok(<<"java.util.Date">>)
                    ELSE Classed(populateJavaClasses(jc, NewDocType(t, meth), meth))
              [] kd = "slice" -> Listed(javaTypeFor(jc, Elem(t), meth, ""))
              [] kd \in {"int64", "int32", "int"} -> ok(<<"Long">>)
              [] kd = "float64" -> ok(<<"Double">>)
              [] OTHER -> fail
    IN  IF t = durationType
        THEN ok(IF ticker # "" THEN <<"Ticker">> ELSE <<"Long">>)
        ELSE Of(Kind(t))

\* populateJavaClasses' loop over d.Fields from field i on, members being the
\* member lines written so far.
JavaMembersFrom(jc, d, meth, i, members) ==
    IF i > Len(d.Fields) THEN [jc |-> jc, members |-> members, err |-> "", typ |-> ""]
    ELSE LET Then(r, name) ==
                IF r.err # ""
                THEN [jc |-> r.jc, members |-> members, err |-> r.err, typ |-> r.typ]
                ELSE JavaMembersFrom(r.jc, d, meth, i + 1,
                                     Append(members, Member(r.java, name)))
             Line(f) ==
                IF f.field.skip # ""
                THEN JavaMembersFrom(jc, d, meth, i + 1, members)
                ELSE Then(javaTypeFor(jc, f.field.type, meth, f.field.ticker), f.Name)
         IN  Line(d.Fields[i])

\* DocType.populateJavaClasses: the map after the call and the error.
populateJavaClasses(jc, d, meth) ==
    IF TypeName(d.typ) \in DOMAIN jc.classes
    THEN [jc |-> jc, err |-> "", typ |-> ""]
    ELSE LET Done(r) ==
                IF r.err # "" THEN [jc |-> r.jc, err |-> r.err, typ |-> r.typ]
                ELSE [jc |-> StoreClass(r.jc, d.typ, r.members), err |-> "", typ |-> ""]
         IN  Done(JavaMembersFrom(jc, d, meth, 1, <<>>))

\* DocType.ToJavaClasses.
ToJavaClasses(d, meth) == populateJavaClasses(NoClasses, d, meth)

\* Resource.toJavaClasses for a resource of the type.
toJavaClasses(typ, meth) == ToJavaClasses(NewDocType(typ, meth), meth)

(***************************************************************************)
(* Links.  mux is modelled as far as Link.Resolve uses it: Router.Get      *)
(* returns the route registered last under the name, or nil, and Route.URL *)
(* fills the variables of the path template from the pairs given.          *)
(***************************************************************************)
\* Router.Get: <<>> for a nil *Route.
RouterGet(rts, name) ==
    LET hits == {i \in DOMAIN rts : rts[i].name = name}
    IN  IF hits = {} THEN <<>>
        ELSE <<rts[CHOOSE i \in hits : \A j \in hits : j <= i]>>

\* The variable a part of a path template stands for, "" for a literal part.
PathVar(part) ==
    CASE part = "/{id}" -> "id"
      [] part = "/{user_id}" -> "user_id"
      [] OTHER -> ""

\* Route.URL: an odd number of parameters and a variable without a value are
\* errors; otherwise the path with the values in place of the variables.
RouteURL(route, pairs) ==
    LET value(name) ==
            LET at == {i \in DOMAIN pairs : i % 2 = 1 /\ i < Len(pairs) /\ pairs[i] = name}
            IN  IF at = {} THEN <<>>
                ELSE <<pairs[(CHOOSE i \in at : \A j \in at : j <= i) + 1]>>
        pat == route.pattern
        missing == {i \in DOMAIN pat : PathVar(pat[i]) # "" /\ value(PathVar(pat[i])) = <<>>}
    IN  IF Len(pairs) % 2 = 1
        THEN [err |-> "mux: number of parameters must be multiple of two", path |-> <<>>]
        ELSE IF missing # {}
        THEN [err |-> "mux: missing route variable", path |-> <<>>]
        ELSE [err |-> "",
              path |-> [i \in DOMAIN pat |->
                            IF PathVar(pat[i]) = "" THEN pat[i]
                            ELSE value(PathVar(pat[i]))[1]]]

\* The error a decorator returns when it fails.
DecoratorErr(id) ==
    CASE id = "d1" -> "d1 failed"
      [] id = "d2" -> "d2 failed"
      [] OTHER -> "decorator failed"

\* A call of a decorator: which one, and the scheme and host of the URL it
\* was handed.
DecoratorCall(d, u) == [id |-> d.id, scheme |-> u.scheme, host |-> u.host]

RECURSIVE DecorateAll(_, _, _, _)
RECURSIVE Decorate(_, _, _, _)

\* The loop going on after a decorator failed.
DecorateAll(decorators, u, i, calls) ==
    IF i > Len(decorators) THEN [err |-> "", url |-> u, calls |-> calls]
    ELSE IF decorators[i].fails
    THEN DecorateAll(decorators, u, i + 1, Append(calls, DecoratorCall(decorators[i], u)))
    ELSE DecorateAll(decorators, [u EXCEPT !.query = Append(@, decorators[i].id)], i + 1,
                     Append(calls, DecoratorCall(decorators[i], u)))

\* The loop over the link's decorators from the i-th on: a decorator either
\* returns an error or leaves its mark on the URL's query.  calls are the
\* decorators called so far.
Decorate(decorators, u, i, calls) ==
    IF i > Len(decorators) THEN [err |-> "", url |-> u, calls |-> calls]
    ELSE IF decorators[i].fails
    THEN [err |-> DecoratorErr(decorators[i].id), url |-> u,
          calls |-> Append(calls, DecoratorCall(decorators[i], u))]
    ELSE Decorate(decorators, [u EXCEPT !.query = Append(@, decorators[i].id)], i + 1,
                  Append(calls, DecoratorCall(decorators[i], u)))

NoURL == [scheme |-> "", host |-> "", path |-> <<>>, query |-> <<>>]

\* Link.Resolve against the router: "ok" with the URL, "error" with the error
\* and the empty URL, or "panic" when a nil *mux.Router or a nil *mux.Route is
\* dereferenced.
Resolve(rtr, rts, l) ==
    LET Decorated(d) ==
            IF d.err # ""
            THEN [result |-> "error", err |-> d.err, url |-> NoURL, calls |-> d.calls]
            ELSE [result |-> "ok", err |-> "", url |-> d.url, calls |-> d.calls]
        Built(u) ==
            IF u.err # ""
            THEN [result |-> "error", err |-> u.err, url |-> NoURL, calls |-> <<>>]
            ELSE Decorated(Decorate(l.linkDecorators,
                                    [scheme |-> l.baseScheme, host |-> l.baseHost,
                                     path |-> u.path, query |-> <<>>], 1, <<>>))
        Got(route) ==
            IF rtr = "" \/ route = <<>>
            THEN [result |-> "panic", err |-> "nil pointer dereference", url |-> NoURL,
                  calls |-> <<>>]
            ELSE Built(RouteURL(route[1], l.RouteParams))
    IN  Got(RouterGet(rts, l.Route))

\* Link.MarshalJSON: the members of the JSON object written.  JSONSchema is a
\* pointer tagged omitempty: the member is written unless the pointer is nil.
MarshalJSON(rtr, rts, l) ==
    LET With(none, sch) ==
            IF sch.err # "" THEN [none EXCEPT !.result = "error", !.err = sch.err]
            ELSE [none EXCEPT !.members = {"Rel", "URL", "Method", "JSONSchema"},
                              !.JSONSchema = <<sch.schema>>]
        Marshal(none) ==
            IF none.result # "ok" THEN none
            ELSE IF (l.Method = "POST" \/ l.Method = "PUT") /\ l.Type # ""
            THEN With(none, ToJSONSchema(NewDocType(l.Type, l.Method)))
            ELSE [none EXCEPT !.members = {"Rel", "URL", "Method"}]
        Resolved(r) ==
            Marshal([result |-> r.result, err |-> r.err, members |-> {},
                     json |-> [Rel |-> l.Rel, URL |-> r.url,
                               Method |-> IF l.Method = "" THEN "GET" ELSE l.Method],
                     JSONSchema |-> <<>>])
    IN  Resolved(Resolve(rtr, rts, l))

(***************************************************************************)
(* Items.  sort.Sort on a list of fewer than twelve elements is an         *)
(* insertion sort by Links.Less.  A string is less than another by its     *)
(* place in RelOrder.                                                      *)
(***************************************************************************)
\* The relation names of the model in the order of Go's < on strings.
RelOrder == <<"a", "b", "self", "z">>

\* s < t on those names.
StringLess(str, t) ==
    (CHOOSE i \in DOMAIN RelOrder : RelOrder[i] = str)
        < (CHOOSE i \in DOMAIN RelOrder : RelOrder[i] = t)

\* Links.Less on the links l[i] and l[j].
Less(li, lj) ==
    IF li.Method = lj.Method THEN StringLess(li.Rel, lj.Rel)
    ELSE /\ li.Method = "GET" \/ li.Method = ""
         /\ ~(lj.Method = "GET" \/ lj.Method = "")

RECURSIVE SiftDown(_, _)
RECURSIVE InsertionSortFrom(_, _)

\* The inner loop of the insertion sort: data[j] is swapped towards the front
\* while it is less than the element before it.
SiftDown(data, j) ==
    IF j > 1 /\ Less(data[j], data[j - 1])
    THEN SiftDown([data EXCEPT ![j] = data[j - 1], ![j - 1] = data[j]], j - 1)
    ELSE data

\* The outer loop from the i-th element on.
InsertionSortFrom(data, i) ==
    IF i > Len(data) THEN data ELSE InsertionSortFrom(SiftDown(data, i), i + 1)

\* sort.Sort.
Sort(data) == InsertionSortFrom(data, 2)

\* atomic.LoadUint64 in the place of the increment: the value as it is.
LoadUint64(value, delta) == value

\* atomic.AddUint64(&addr, delta) with the value at addr: the new value, which
\* is stored and returned in one indivisible step.  The counter is a uint64;
\* the values here stay below MaxRenders + 1, far from 2^64.
AddUint64(value, delta) == value + delta

\* fmt.Sprintf("form%d", n) and fmt.Sprintf("button%d", n): the prefix and the
\* number in decimal.
ElementID(el, n) == <<el, n>>

\* The element of a link that is not a GET link: a form for a POST or PUT
\* link whose DocType has fields, a button otherwise.
IdentifiedElement(l) ==
    IF /\ l.Method \in {"POST", "PUT"}
       /\ l.Type # ""
       /\ Len(NewDocType(l.Type, l.Method).Fields) > 0
    THEN "form" ELSE "button"

\* Link.HTMLNode up to the increment: the method defaulted, the link
\* resolved, and the element to make: "a" for a GET link, else a form or a
\* button; "" when Resolve ended with an error or a panic, or NewDocType with
\* an error.
LinkElement(rtr, rts, l) ==
    LET Typed(method, r, err) ==
            [result |-> IF err # "" THEN "error" ELSE r.result,
             err |-> IF err # "" THEN err ELSE r.err, method |-> method, url |-> r.url,
             el |-> IF r.result # "ok" \/ err # "" THEN ""
                    ELSE IF method = "GET" THEN "a"
                    ELSE IdentifiedElement([l EXCEPT !.Method = method])]
        Resolved(method, r) ==
            Typed(method, r, IF r.result = "ok" /\ method # "GET" /\ l.Type # ""
                             THEN NewDocTypeErr(l.Type, method) ELSE "")
    IN  Resolved(IF l.Method = "" THEN "GET" ELSE l.Method, Resolve(rtr, rts, l))

\* Link.HTMLNode after the increment returned n: the form, unless the schema
\* of its type cannot be made, or the button, with the ID.
LinkNode(l, pre, n) ==
    LET Made(id) ==
            [result |-> "ok", err |-> "",
             node |-> <<[el |-> pre.el, id |-> id, rel |-> l.Rel, method |-> pre.method,
                         url |-> pre.url]>>]
        Form(sch) ==
            IF sch.err # "" THEN [result |-> "error", err |-> sch.err, node |-> <<>>]
            ELSE Made(ElementID("form", n))
    IN  IF pre.el = "form" THEN Form(ToJSONSchema(NewDocType(l.Type, pre.method)))
        ELSE Made(ElementID("button", n))

(***************************************************************************)
(* The request as far as links use it: whether it came over TLS, its host  *)
(* and the decorators registered with it.                                  *)
(***************************************************************************)
\* The request the function registered by Handle builds.
NewRequest(tls, host) == [tls |-> tls, host |-> host, linkDecorators |-> <<>>]

\* request.DecorateLinks.
DecorateLinks(r, f) == [r EXCEPT !.linkDecorators = Append(@, f)]

\* request.NewLink: the link with the request's scheme, host and the
\* decorators registered so far.
NewLink(r, l) ==
    [l EXCEPT !.baseScheme = IF r.tls THEN "https" ELSE "http",
              !.baseHost = r.host,
              !.linkDecorators = r.linkDecorators]

(***************************************************************************)
(* Errors and their mapping to responses.                                  *)
(***************************************************************************)
NilErr == [k |-> "nil", msg |-> "", status |-> 0, errs |-> <<>>]

\* errors.New / fmt.Errorf.
PlainErr(msg) == [k |-> "error", msg |-> msg, status |-> 0, errs |-> <<>>]

HTTPErr(body, status) == [k |-> "HTTPErr", msg |-> body, status |-> status, errs |-> <<>>]

ErrNoSuchEntity ==
    [k |-> "ErrNoSuchEntity", msg |-> "datastore: no such entity", status |-> 0,
     errs |-> <<>>]

MultiError(errs) == [k |-> "MultiError", msg |-> "multiple errors", status |-> 0,
                     errs |-> errs]

RECURSIVE ErrorText(_)

\* err.Error(): HTTPErr formats "%s: %d"; a MultiError gives the text of its
\* first non-nil entry and the number of the others.
ErrorText(err) ==
    IF err.k = "HTTPErr" THEN <<err.msg, ": ", err.status>>
    ELSE IF err.k = "MultiError"
    THEN LET Of(errs) ==
                CASE Len(errs) = 0 -> <<"(0 errors)">>
                  [] Len(errs) = 1 -> ErrorText(errs[1])
                  [] Len(errs) = 2 -> ErrorText(errs[1]) \o <<" (and 1 other error)">>
                  [] OTHER -> ErrorText(errs[1])
                                \o <<" (and ", Len(errs) - 1, " other errors)">>
         IN  Of(SelectSeq(err.errs, LAMBDA e : e # NilErr))
    ELSE <<err.msg>>

\* http.Error as HandleError calls it: one write of a status and a body.
HTTPError(body, status) == [kind |-> "error", status |-> status, body |-> body]

\* HandleError without the look into a MultiError.
HandleErrorNoMulti(err) ==
    IF err.k = "HTTPErr" THEN HTTPError(<<err.msg>>, err.status)
    ELSE IF err = ErrNoSuchEntity THEN HTTPError(ErrorText(err), 404)
    ELSE HTTPError(ErrorText(err), 500)

\* HandleError: the response written for a non-nil error.
HandleError(err) ==
    LET only404 == \A i \in DOMAIN err.errs :
                        err.errs[i] = NilErr \/ err.errs[i] = ErrNoSuchEntity
    IN  IF err.k = "HTTPErr" THEN HTTPError(<<err.msg>>, err.status)
        ELSE IF err = ErrNoSuchEntity THEN HTTPError(ErrorText(err), 404)
        ELSE IF err.k = "MultiError" /\ only404 THEN HTTPError(ErrorText(err), 404)
        ELSE HTTPError(ErrorText(err), 500)

\* Whether reflect.Value.IsNil accepts a value of the type: of the result
\* types here the pointers, and the interface error.
Nilable(t) == t \in {"*User", "*Game", "error"}

\* The function createRoute hands to Handle, run once on a request, fVal being
\* the resource's function and ret = (object, error) what fVal returns when
\* called: how often fVal was called, the panic raised, the error returned
\* and the content set on w (<<>> for none).
Dispatch(fVal, ret) ==
    LET out(panic, err, content) ==
            [invoked |-> 1, panic |-> panic, err |-> err, content |-> content]
    IN  IF ~Nilable(fVal.out[2])
        THEN out("reflect: call of reflect.Value.IsNil on struct Value", NilErr, <<>>)
        ELSE IF ret.err # NilErr THEN out("", ret.err, <<>>)
        ELSE IF ~Nilable(fVal.out[1])
        THEN out("reflect: call of reflect.Value.IsNil on struct Value", NilErr, <<>>)
        ELSE IF ret.obj # "nil" THEN out("", NilErr, <<"Item", ret.obj>>)
        ELSE out("", NilErr, <<>>)

(***************************************************************************)
(* Headers.  A header value is the sequence of its parts: the media type,  *)
(* and after it a "; charset=" part and the character set.                 *)
(***************************************************************************)
\* strings.ToLower on the texts the headers here are made of.
ToLower(str) ==
    CASE str = "UTF-8" -> "utf-8"
      [] str = "Application/JSON" -> "application/json"
      [] OTHER -> str

\* mime.ParseMediaType: the error ("" for nil), the media type in lower case
\* and the charset parameter ("" when absent).
ParseMediaType(h) ==
    IF h = <<>>
    THEN [err |-> "mime: no media type", media |-> "", charset |-> ""]
    ELSE IF h[1] = "text plain"
    THEN [err |-> "mime: expected slash after first token", media |-> "", charset |-> ""]
    ELSE [err |-> "", media |-> ToLower(h[1]),
          charset |-> IF Len(h) = 3 THEN h[3] ELSE ""]

\* Copy: the media type and character set of the request decide whether copyJSON
\* is called.
Copy(destKind, typ, dest, contentType, body, method) ==
    LET p == ParseMediaType(contentType)
        fail(msg) == [result |-> "error", err |-> msg, dest |-> dest]
    IN  IF p.err # "" THEN fail(p.err)
        ELSE IF ToLower(p.charset) # "utf-8" /\ p.charset # ""
        THEN fail("unsupported character set")
        ELSE IF p.media = "application/json"
        THEN copyJSON(destKind, typ, dest, body, method)
        ELSE fail("unsupported Content-Type")

(***************************************************************************)
(* The request lifecycle: the function Handle registers with the router.   *)
(* A filter is (id, cont, err): what it returns.  A post-processor is      *)
(* (id, kind): "halt" returns (false, err), "clear" returns (true, nil),   *)
(* "wrap" returns (true, HTTPErr{..., 400}) for a non-nil err and          *)
(* (true, nil) for nil, "fail" returns (true, an error of its own).  What  *)
(* the handler does is an input of the request.                            *)
(***************************************************************************)
\* The content negotiation at the head of the function: the media type and
\* the status refused with (0 when accepted).
Negotiate(accept, paramAccept) ==
    LET p == ParseMediaType(accept)
        dflt == p.err # "" \/ p.media = "" \/ p.media = "*/*"
        media0 == IF dflt THEN "text/html" ELSE p.media
        media == IF paramAccept # "" THEN paramAccept ELSE media0
        charset0 == IF dflt THEN "utf-8" ELSE p.charset
        charset == IF charset0 = "" THEN "utf-8" ELSE charset0
    IN  IF media \notin {"text/html", "application/json"}
        THEN [media |-> media, refused |-> 406,
              body |-> <<"only accepts text/hml or application/json requests">>]
        ELSE IF ToLower(charset) # "utf-8"
        THEN [media |-> media, refused |-> 406, body |-> <<"only accepts utf-8 requests">>]
        ELSE [media |-> media, refused |-> 0, body |-> <<>>]

RECURSIVE RunFiltersAll(_, _, _, _)
RECURSIVE RunFilters(_, _, _)

\* A loop that calls every filter and keeps the first error or cont = false.
RunFiltersAll(fs, i, calls, first) ==
    IF i > Len(fs)
    THEN IF first = <<>> THEN [calls |-> calls, err |-> NilErr, cont |-> TRUE]
         ELSE [calls |-> calls, err |-> first[1].err, cont |-> first[1].cont]
    ELSE RunFiltersAll(fs, i + 1, Append(calls, fs[i].id),
                       IF first = <<>> /\ (fs[i].err # NilErr \/ ~fs[i].cont)
                       THEN <<fs[i]>> ELSE first)

RunFiltersToTheEnd(fs, i, calls) == RunFiltersAll(fs, i, calls, <<>>)

\* The loop over the filters from the i-th on: the filters called, and the
\* error or the cont = false that ended the loop.
RunFilters(fs, i, calls) ==
    IF i > Len(fs) THEN [calls |-> calls, err |-> NilErr, cont |-> TRUE]
    ELSE IF fs[i].err # NilErr
    THEN [calls |-> Append(calls, fs[i].id), err |-> fs[i].err, cont |-> fs[i].cont]
    ELSE IF ~fs[i].cont
    THEN [calls |-> Append(calls, fs[i].id), err |-> NilErr, cont |-> FALSE]
    ELSE RunFilters(fs, i + 1, Append(calls, fs[i].id))

\* What a post-processor returns for the error it is given.
PostProcResult(pp, err) ==
    CASE pp.kind = "halt" -> [cont |-> FALSE, err |-> err]
      [] pp.kind = "clear" -> [cont |-> TRUE, err |-> NilErr]
      [] pp.kind = "wrap" ->
            [cont |-> TRUE,
             err |-> IF err = NilErr THEN NilErr ELSE HTTPErr(err.msg, 400)]
      [] pp.kind = "fail" -> [cont |-> TRUE, err |-> PlainErr("post-processing failed")]

RECURSIVE RunPostProcsFrom(_, _, _, _, _, _)

\* The loop over the post-processors from the i-th on: err is the error the
\* loop holds, own tells whether a post-processor is given that error or the
\* handler's; given collects the errors the post-processors were called with.
RunPostProcsFrom(pps, i, err, calls, given, own) ==
    IF i > Len(pps) THEN [calls |-> calls, err |-> err, given |-> given]
    ELSE LET arg == IF own \/ given = <<>> THEN err ELSE given[1]
             Returned(r) ==
                IF ~r.cont
                THEN [calls |-> Append(calls, pps[i].id), err |-> r.err,
                      given |-> Append(given, arg)]
                ELSE RunPostProcsFrom(pps, i + 1, r.err, Append(calls, pps[i].id),
                                      Append(given, arg), own)
         IN  Returned(PostProcResult(pps[i], arg))

\* A loop that calls every post-processor with the handler's error.
RunPostProcsOnHandlerErr(pps, i, err, calls) ==
    RunPostProcsFrom(pps, i, err, calls, <<>>, FALSE)

\* The loop over the post-processors: cont, err = postProc(w, r, err).
RunPostProcs(pps, i, err, calls) == RunPostProcsFrom(pps, i, err, calls, <<>>, TRUE)

\* The handler f of the route on the request: "copy" calls Copy on the request
\* and returns its error, setting the content when there is none; "fail"
\* returns an error; "content" sets content and returns nil.
CallHandler(h, req) ==
    LET c == Copy(h.destKind, h.typ, Zero(h.typ), req.contentType, req.body, h.method)
    IN  CASE h.kind = "copy" ->
                [panic |-> c.result = "panic",
                 err |-> IF c.result = "error" THEN PlainErr(c.err) ELSE NilErr,
                 content |-> IF c.result = "ok" THEN "item" ELSE "",
                 copied |-> c.result]
          [] h.kind = "fail" ->
                [panic |-> FALSE, err |-> h.err, content |-> h.content, copied |-> ""]
          [] h.kind = "content" ->
                [panic |-> FALSE, err |-> NilErr, content |-> h.content, copied |-> ""]

\* The links of the content a handler sets: "linked" is an Item with a PUT
\* and a POST link, made with the request's NewLink; the other contents have
\* none.
ContentLinks(content) ==
    IF content = "linked"
    THEN <<[Rel |-> "a", Route |-> <<"ListAllUsers">>, RouteParams |-> <<>>,
            Method |-> "PUT", Type |-> "", baseScheme |-> "http",
            baseHost |-> "example.com", linkDecorators |-> <<>>],
           [Rel |-> "b", Route |-> <<"ListAllUsers">>, RouteParams |-> <<>>,
            Method |-> "POST", Type |-> "", baseScheme |-> "http",
            baseHost |-> "example.com", linkDecorators |-> <<>>]>>
    ELSE <<>>

\* The links of an Item marshalled one after the other from the i-th on: the
\* first that fails ends the encoding.
RECURSIVE MarshalLinks(_, _, _, _)
MarshalLinks(rtr, rts, links, i) ==
    LET Then(r) == IF r.result # "ok" THEN [result |-> r.result, err |-> r.err]
                   ELSE MarshalLinks(rtr, rts, links, i + 1)
    IN  IF i > Len(links) THEN [result |-> "ok", err |-> ""]
        ELSE Then(MarshalJSON(rtr, rts, links[i]))

\* What renderF leaves on the http.ResponseWriter when the content's HTMLNode,
\* or its encoding as JSON, has ended as r: the page or the document, or the
\* response of HandleError for the error; ids are the element IDs in the page.
Render(media, content, r) ==
    LET Page(identified) ==
            [writes |-> <<[kind |-> "render", status |-> 200, body |-> <<media, content>>]>>,
             panic |-> FALSE,
             ids |-> [i \in DOMAIN identified |-> identified[i].id]]
    IN  IF r.result = "panic" THEN [writes |-> <<>>, panic |-> TRUE, ids |-> <<>>]
        ELSE IF r.result # "ok"
        THEN [writes |-> <<HandleError(PlainErr(r.err))>>, panic |-> FALSE, ids |-> <<>>]
        ELSE Page(SelectSeq(r.nav, LAMBDA n : n.id # <<>>))

\* The function up to the call of the handler: the content negotiation and
\* the loop over the filters registered, fs.  at is "handler" when f is called
\* next and "done" when the function has returned; nf is the number of
\* filters the loop ranged over.
ServeFilters(fs, req) ==
    LET base(n) ==
            [req |-> <<req>>, media |-> n.media, calls |-> <<>>, handlerErr |-> NilErr,
             given |-> <<>>, err |-> NilErr, content |-> "", copied |-> "",
             panic |-> FALSE, writes |-> <<>>, rendered |-> <<>>, ids |-> <<>>,
             nf |-> Len(fs),
             np |-> 0, at |-> "done"]
        Filtered(n, fl) ==
            IF fl.err # NilErr
            THEN [base(n) EXCEPT !.calls = fl.calls, !.err = fl.err,
                                 !.writes = <<HandleError(fl.err)>>]
            ELSE IF ~fl.cont THEN [base(n) EXCEPT !.calls = fl.calls]
            ELSE [base(n) EXCEPT !.calls = fl.calls, !.at = "handler"]
        Negotiated(n) ==
            IF n.refused # 0
            THEN [base(n) EXCEPT !.nf = 0, !.writes = <<HTTPError(n.body, n.refused)>>]
            ELSE Filtered(n, RunFilters(fs, 1, <<>>))
    IN  Negotiated(Negotiate(req.accept, req.paramAccept))

\* The response of the request sv is serving when its handler, with outcome
\* h, panics: the function ends there.
ServePanicked(sv, h) ==
    [sv EXCEPT !.calls = Append(sv.calls, "handler"), !.panic = TRUE,
               !.copied = h.copied, !.at = "done"]

\* The request sv is serving when its handler has returned with outcome h
\* and the loop over the np post-processors registered by then has given pp:
\* the error left is answered through HandleError, and the function goes on.
ServeChained(sv, np, h, pp) ==
    [sv EXCEPT !.calls = pp.calls, !.handlerErr = h.err, !.err = pp.err,
               !.given = pp.given, !.content = h.content, !.copied = h.copied,
               !.np = np,
               !.writes = IF pp.err # NilErr THEN <<HandleError(pp.err)>> ELSE <<>>]

\* The response of the request sv is serving when the rendering of its
\* content has given rd: what the rendering writes comes after the error
\* response.
ServeRest(sv, rd) ==
    [sv EXCEPT !.panic = rd.panic, !.rendered = rd.writes,
               !.writes = sv.writes \o rd.writes, !.ids = rd.ids, !.at = "done"]

(***************************************************************************)
(* The state after construction: every package variable holds its zero     *)
(* value and no call has been made.                                        *)
(***************************************************************************)
NoCall == [op |-> "", n |-> 0, ro |-> "", panic |-> "", added |-> <<>>, re |-> <<>>,
           out |-> <<>>]

NoLink == [op |-> "", link |-> <<>>, result |-> "", err |-> "", url |-> NoURL,
           members |-> {}, JSONSchema |-> <<>>, calls |-> <<>>]

NoWalk == [typ |-> "", method |-> "", status |-> "idle", stack |-> <<>>, made |-> 0]

NoLookup == [typ |-> "", method |-> "", n |-> "", called |-> FALSE, found |-> FALSE,
             field |-> <<>>]

NoDispatch == [re |-> 0, meth |-> "", ret |-> <<>>, invoked |-> 0, panic |-> "",
               err |-> NilErr, content |-> <<>>]

Clients == {"c1", "c2"}

NotRendering == [at |-> "idle", el |-> "", last |-> "", link |-> <<>>, pre |-> <<>>,
                 item |-> <<>>, srv |-> <<>>, sent |-> <<>>]

Idle == [at |-> "idle", w |-> 0, r |-> 0, link |-> <<>>, written |-> <<>>]

NoJava == [typ |-> "", meth |-> "", called |-> FALSE, err |-> "", errTyp |-> "",
           classes |-> NoClasses.classes, emitted |-> <<>>]

NoSchema == [typ |-> "", method |-> "", called |-> FALSE, err |-> "",
             errTyp |-> "", schema |-> <<>>]

NoItem == [links |-> <<>>, result |-> "", err |-> "", self |-> <<>>, nav |-> <<>>]

NoResp == [req |-> <<>>, media |-> "", calls |-> <<>>, handlerErr |-> NilErr,
           nf |-> 0, np |-> 0, given |-> <<>>, err |-> NilErr, content |-> "",
           copied |-> "", panic |-> FALSE, rendered |-> <<>>, ids |-> <<>>, at |-> "",
           writes |-> <<>>]

NoCopy ==
    /\ cTyp = ""
    /\ cDestKind = ""
    /\ cMethod = ""
    /\ cBody = Nil
    /\ cDest = Nil
    /\ cResult = ""
    /\ cErr = ""

Constructed ==
    /\ router = ""
    /\ routes = <<>>
    /\ resources = <<>>
    /\ regCall = NoCall
    /\ lnk = NoLink
    /\ rq = <<>>
    /\ itm = NoItem
    /\ docs = <<>>
    /\ schemaCall = NoSchema
    /\ javaCall = NoJava
    /\ dispatch = NoDispatch
    /\ lookup = NoLookup
    /\ walk = NoWalk
    /\ nextElementID = 0
    /\ rendering = [c \in Clients |-> NotRendering]
    /\ issued = <<>>
    /\ writers = <<>>
    /\ requests = <<>>
    /\ inflight = [c \in Clients |-> Idle]
    /\ filters = <<>>
    /\ postProcs = <<>>
    /\ resp = NoResp

(***************************************************************************)
(* copyJSON on the inputs drawn.                                           *)
(***************************************************************************)
CopyInit ==
    /\ cTyp \in DestTypes
    /\ cMethod \in CopyMethods
    /\ \/ cDestKind = "ptrStruct" /\ cBody \in Payloads(cTyp)
       \/ cDestKind = "ptrStruct" /\ cBody \in {Malformed, Nil, Arr(<<>>)}
       \/ cDestKind \in {"struct", "ptrInt", "nil"} /\ cBody \in {Obj(EmptyMap), Malformed}
    /\ cDest = Zero(cTyp)
    /\ cResult = ""
    /\ cErr = ""
    /\ Constructed

\* A call of copyJSON on the inputs drawn.
CopyJSON ==
    /\ cResult = ""
    /\ cTyp # ""
    /\ \E r \in {copyJSON(cDestKind, cTyp, cDest, cBody, cMethod)} :
           /\ cResult' = r.result
           /\ cErr' = r.err
           /\ cDest' = r.dest
    /\ UNCHANGED <<cTyp, cDestKind, cMethod, cBody>>
    /\ UNCHANGED <<regVars, lnk, rq, reqVars, itm, docVars, concVars>>

CopyNext == CopyJSON

SpecCopy == CopyInit /\ [][CopyNext]_vars

(***************************************************************************)
(* Registration.                                                           *)
(***************************************************************************)
MaxCalls == 2

Routers == {"r1", "r2"}

\* Handlers of the right shape, and one for each way of having the wrong one.
UserFunc == Func(<<"ResponseWriter", "Request">>, <<"*User", "error">>)

GameFunc == Func(<<"ResponseWriter", "Request">>, <<"*Game", "error">>)

GameValueFunc == Func(<<"ResponseWriter", "Request">>, <<"Game", "error">>)

BadFuncs ==
    {NotAFunc,
     Func(<<"ResponseWriter">>, <<"*User", "error">>),
     Func(<<"Request", "Request">>, <<"*User", "error">>),
     Func(<<"ResponseWriter", "ResponseWriter">>, <<"*User", "error">>),
     Func(<<"ResponseWriter", "Request">>, <<"*User">>),
     Func(<<"ResponseWriter", "Request">>, <<"int", "error">>),
     Func(<<"ResponseWriter", "Request">>, <<"*Game", "string">>)}

Lister(path, route) == [Path |-> path, Route |-> route]

Resource(c, u, d, l) ==
    [Create |-> c, Update |-> u, Delete |-> d, Load |-> l, Listers |-> <<>>,
     FullPath |-> <<>>, CreatePath |-> <<>>, Type |-> ""]

\* The resource with handler f in slot meth.
WithFunc(re, meth, f) ==
    CASE meth = "Create" -> [re EXCEPT !.Create = f]
      [] meth = "Update" -> [re EXCEPT !.Update = f]
      [] meth = "Delete" -> [re EXCEPT !.Delete = f]
      [] meth = "Load" -> [re EXCEPT !.Load = f]

Slots == {"Create", "Update", "Delete", "Load"}

NoResource == Resource(NoFunc, NoFunc, NoFunc, NoFunc)

UserResource == Resource(UserFunc, UserFunc, UserFunc, UserFunc)

AllUsers == Lister(<<"/", "Users">>, <<"ListAllUsers">>)

\* The resources registration is checked on: every choice of bound slots, two
\* and three handlers of different types in every pair of slots and order,
\* every wrong shape in every slot, listers and paths.
RegResources ==
    {Resource(c, u, d, l) : c, u, d, l \in {NoFunc, UserFunc}}
    \cup {WithFunc(WithFunc(NoResource, p[1], UserFunc), p[2], GameFunc) :
            p \in {q \in Slots \X Slots : q[1] # q[2]}}
    \cup {WithFunc(WithFunc(NoResource, "Create", GameFunc), b, GameValueFunc) :
            b \in Slots \ {"Create"}}
    \cup {WithFunc(WithFunc(NoResource, "Create", UserFunc), "Update", GameValueFunc)}
    \cup {WithFunc(UserResource, a, GameFunc) : a \in Slots}
    \cup {WithFunc(NoResource, "Create", f) : f \in BadFuncs}
    \cup {WithFunc(UserResource, a, f) : a \in Slots, f \in BadFuncs}
    \cup {[NoResource EXCEPT !.Listers = <<AllUsers>>],
          [UserResource EXCEPT !.Listers = <<AllUsers>>],
          [UserResource EXCEPT !.CreatePath = <<"/", "People">>],
          [UserResource EXCEPT !.FullPath = <<"/", "Person", "/{id}">>]}

\* The resources registered on a second router.
OtherRouterResources ==
    {NoResource, UserResource, WithFunc(UserResource, "Update", GameFunc),
     WithFunc(UserResource, "Update", NotAFunc)}

PlainRoute == [name |-> <<"ListAllUsers">>, pattern |-> <<"/", "Users">>]

\* A call Handle(ro, pattern, {"GET"}, name, f).
HandleCall(ro, rt) ==
    /\ regCall.n < MaxCalls
    /\ \E s \in {Handle([router |-> router, routes |-> routes, panic |-> ""], ro,
                        rt.pattern, <<"GET">>, rt.name,
                        [kind |-> "plain", meth |-> ""])} :
           /\ router' = s.router
           /\ routes' = s.routes
           /\ regCall' = [NoCall EXCEPT !.op = "Handle", !.n = regCall.n + 1, !.ro = ro,
                                        !.panic = s.panic,
                                        !.added = SubSeq(s.routes, Len(routes) + 1,
                                                         Len(s.routes))]
    /\ UNCHANGED <<resources, lnk, rq, reqVars, copyVars, itm, docVars, concVars>>

\* A call HandleResource(ro, &re).
HandleResourceCall(ro, re) ==
    /\ regCall.n < MaxCalls
    /\ \E s \in {HandleResource([router |-> router, routes |-> routes,
                                  resources |-> resources], ro, re)} :
           /\ router' = s.router
           /\ routes' = s.routes
           /\ resources' = s.resources
           /\ regCall' = [NoCall EXCEPT !.op = "HandleResource", !.n = regCall.n + 1,
                                        !.ro = ro, !.panic = s.panic, !.re = <<re>>,
                                        !.out = <<s.re>>,
                                        !.added = SubSeq(s.routes, Len(routes) + 1,
                                                         Len(s.routes))]
    /\ UNCHANGED <<lnk, rq, reqVars, copyVars, itm, docVars, concVars>>

RegInit == NoCopy /\ Constructed

RegNext ==
    \/ \E ro \in Routers : HandleCall(ro, PlainRoute)
    \/ \E re \in RegResources : HandleResourceCall("r1", re)
    \/ \E re \in OtherRouterResources : HandleResourceCall("r2", re)

SpecReg == RegInit /\ [][RegNext]_vars

(***************************************************************************)
(* Links against the routes registered.                                    *)
(***************************************************************************)
Link(rel, route, params, method, typ, decorators) ==
    [Rel |-> rel, Route |-> route, RouteParams |-> params, Method |-> method,
     Type |-> typ, baseScheme |-> "https", baseHost |-> "example.com",
     linkDecorators |-> decorators]

Decorator(id, fails) == [id |-> id, fails |-> fails]

LoadOnly == Resource(NoFunc, NoFunc, NoFunc, UserFunc)

LinkResources == {LoadOnly, UserResource}

LinkRoutes == {<<"User", ".", "Load">>, <<"ListAllUsers">>, <<"Nope">>}

LinkParams == {<<>>, <<"id", "7">>, <<"id">>}

DecoratorLists ==
    {<<>>, <<Decorator("d1", FALSE), Decorator("d2", FALSE)>>,
     <<Decorator("d1", FALSE), Decorator("d2", TRUE), Decorator("d3", FALSE)>>}

\* The links resolved: every route with every parameter list and every list of
\* decorators, and every method with every type.
LinkInputs ==
    {Link("self", rt, ps, "", "", ds) :
        rt \in LinkRoutes, ps \in LinkParams, ds \in DecoratorLists}
    \cup {Link("update", <<"ListAllUsers">>, <<>>, m, t, <<>>) :
            m \in {"", "GET", "POST", "PUT", "DELETE"},
            t \in {"", "Inner", "PutOnly", "Nest", "Holder"}}

\* A call l.Resolve().
ResolveCall(l) ==
    /\ \E r \in {Resolve(router, routes, l)} :
           lnk' = [NoLink EXCEPT !.op = "Resolve", !.link = <<l>>, !.result = r.result,
                                 !.err = r.err, !.url = r.url, !.calls = r.calls]
    /\ UNCHANGED <<regVars, rq, reqVars, copyVars, itm, docVars, concVars>>

\* A call l.MarshalJSON().
MarshalJSONCall(l) ==
    /\ \E r \in {MarshalJSON(router, routes, l)} :
           lnk' = [NoLink EXCEPT !.op = "MarshalJSON", !.link = <<l>>,
                                 !.result = r.result, !.err = r.err, !.url = r.json.URL,
                                 !.members = r.members, !.JSONSchema = r.JSONSchema]
    /\ UNCHANGED <<regVars, rq, reqVars, copyVars, itm, docVars, concVars>>

LinkInit == NoCopy /\ Constructed

LinkNext ==
    \/ \E ro \in Routers : HandleCall(ro, PlainRoute)
    \/ \E re \in LinkResources : HandleResourceCall("r1", re)
    \/ \E l \in LinkInputs : ResolveCall(l)
    \/ \E l \in LinkInputs : MarshalJSONCall(l)

SpecLink == LinkInit /\ [][LinkNext]_vars

(***************************************************************************)
(* Links made by a request and resolved.                                   *)
(***************************************************************************)
MaxDecorators == 2

Decorators == {Decorator("d1", FALSE), Decorator("d2", TRUE), Decorator("d3", FALSE)}

\* A Link literal as a handler writes it: the unexported fields are zero.
LinkLiteral(rel, route, params) ==
    [Rel |-> rel, Route |-> route, RouteParams |-> params, Method |-> "", Type |-> "",
     baseScheme |-> "", baseHost |-> "", linkDecorators |-> <<>>]

LinkLiterals ==
    {LinkLiteral("self", <<"ListAllUsers">>, <<>>),
     LinkLiteral("self", <<"ListAllUsers">>, <<"id">>)}

\* A request arrives at a route and the function registered there builds its
\* request value.
NewRequestCall(tls, host) ==
    /\ routes # <<>>
    /\ rq' = <<NewRequest(tls, host)>>
    /\ UNCHANGED <<regVars, lnk, reqVars, copyVars, itm, docVars, concVars>>

\* A call r.DecorateLinks(f).
DecorateLinksCall(f) ==
    /\ rq # <<>>
    /\ Len(rq[1].linkDecorators) < MaxDecorators
    /\ rq' = <<DecorateLinks(rq[1], f)>>
    /\ UNCHANGED <<regVars, lnk, reqVars, copyVars, itm, docVars, concVars>>

\* A call r.NewLink(l): the link returned is kept.
NewLinkCall(l) ==
    /\ rq # <<>>
    /\ lnk' = [NoLink EXCEPT !.op = "NewLink", !.link = <<NewLink(rq[1], l)>>]
    /\ UNCHANGED <<regVars, rq, reqVars, copyVars, itm, docVars, concVars>>

\* A call Resolve() on the link kept.
ResolveKept ==
    /\ lnk.link # <<>>
    /\ ResolveCall(lnk.link[1])

NewLinkInit == NoCopy /\ Constructed

NewLinkNext ==
    \/ HandleCall("r1", PlainRoute)
    \/ \E tls \in BOOLEAN : NewRequestCall(tls, "example.com")
    \/ \E f \in Decorators : DecorateLinksCall(f)
    \/ \E l \in LinkLiterals : NewLinkCall(l)
    \/ ResolveKept

SpecNewLink == NewLinkInit /\ [][NewLinkNext]_vars

(***************************************************************************)
(* Items rendered as HTML.                                                 *)
(***************************************************************************)
MaxLinks == 3

\* The most element IDs taken in a run.
MaxRenders == 4

\* The IDs taken by a call, as the log of the increments keeps them.
Taken(by, ids) ==
    [i \in DOMAIN ids |-> [by |-> by, el |-> ids[i].el, n |-> ids[i].n, id |-> ids[i].id]]

\* The links of an item: a self link, and other relation names with methods
\* of the GET group and of the other group.
ItemLinks ==
    {LinkLiteral("self", PlainRoute.name, <<>>)}
    \cup {[LinkLiteral(p[1], PlainRoute.name, <<>>) EXCEPT !.Method = p[2]] :
            p \in {<<"a", "GET">>, <<"a", "PUT">>, <<"a", "POST">>,
                   <<"b", "">>, <<"b", "POST">>}}

ItemLinkLists == UNION {[1..n -> ItemLinks] : n \in 0..MaxLinks}

\* The increments the call in progress p can still make.
Owed(p) ==
    IF p.item # <<>> THEN Len(p.item[1].links) - Len(p.item[1].nav)
    ELSE IF p.at = "element" THEN 1
    ELSE IF p.at = "handler" /\ p.srv[1].media = "text/html"
    THEN Len(ContentLinks(p.srv[1].req[1].handler.content))
    ELSE 0

RECURSIVE OwedBy(_)

OwedBy(cs) ==
    IF cs = {} THEN 0
    ELSE LET c == CHOOSE d \in cs : TRUE
         IN  Owed(rendering[c]) + OwedBy(cs \ {c})

\* A call that makes up to k increments stays within MaxRenders.
Room(k) == Len(issued) + OwedBy(Clients) + k <= MaxRenders

\* The step leaves the client's call in progress as q.
Running(q) == [proc |-> q, itm |-> <<>>, resp |-> <<>>]

\* The function Handle registered returns, having written the response sv.
Responded(sv) ==
    [proc |-> [NotRendering EXCEPT !.sent = <<sv>>], itm |-> <<>>, resp |-> <<sv>>]

\* Item.HTMLNode, in progress as f for p, returns r: to the function Handle
\* registered, which writes the page or the error, or to the caller.
ItemReturned(p, f, r) ==
    IF p.srv # <<>>
    THEN Responded(ServeRest(p.srv[1], Render(p.srv[1].media, p.srv[1].content, r)))
    ELSE [proc |-> [NotRendering EXCEPT !.last = r.result],
          itm |-> <<[links |-> f.links, result |-> r.result, err |-> r.err,
                     self |-> r.self, nav |-> r.nav]>>,
          resp |-> <<>>]

\* Item.HTMLNode's loop over the links sorted, at the f.j-th: the call of its
\* HTMLNode comes next, or the item's node is returned.
NavNext(p, f) ==
    IF f.j > Len(f.rest)
    THEN ItemReturned(p, f, [result |-> "ok", err |-> "", self |-> f.self, nav |-> f.nav])
    ELSE Running([p EXCEPT !.at = "link", !.item = <<f>>, !.el = "", !.link = <<>>,
                           !.pre = <<>>])

\* Item.HTMLNode's first loop, at the f.i-th link: the Resolve of the next
\* link of relation self comes next; after the last the other links are
\* sorted, and properties that cannot be marshalled end the call.
SelfNext(p, f) ==
    LET selfs == {k \in f.i..Len(f.links) : f.links[k].Rel = "self"}
    IN  IF selfs # {}
        THEN Running([p EXCEPT !.at = "self",
                               !.item = <<[f EXCEPT !.i = CHOOSE k \in selfs :
                                                            \A m \in selfs : k <= m]>>])
        ELSE IF f.fails
        THEN ItemReturned(p, f, [result |-> "error", err |-> "render failed",
                                 self |-> <<>>, nav |-> <<>>])
        ELSE NavNext(p, [f EXCEPT !.i = Len(f.links) + 1, !.j = 1,
                                  !.rest = Sort(SelectSeq(f.links,
                                                          LAMBDA l : l.Rel # "self"))])

\* Item.HTMLNode called by p on an item with the links given; fails: its
\* properties cannot be marshalled.
ItemStart(p, links, fails) ==
    SelfNext(p, [links |-> links, fails |-> fails, rest |-> <<>>, self |-> <<>>,
                 i |-> 1, j |-> 0, nav |-> <<>>])

\* The Resolve of the self link the first loop is at has returned r.
SelfResolved(p, f, r) ==
    IF r.result # "ok"
    THEN ItemReturned(p, f, [result |-> r.result, err |-> r.err, self |-> <<>>,
                             nav |-> <<>>])
    ELSE SelfNext(p, [f EXCEPT !.self = <<r.url>>, !.i = @ + 1])

\* Link.HTMLNode returns r: to Item.HTMLNode's loop, which returns an error
\* and adds a node to the nav element, or to the caller.
LinkReturned(p, r) ==
    IF p.item = <<>>
    THEN Running([NotRendering EXCEPT !.last = IF r.result = "ok" THEN r.node[1].el
                                                ELSE r.result])
    ELSE IF r.result # "ok"
    THEN ItemReturned(p, p.item[1], [result |-> r.result, err |-> r.err, self |-> <<>>,
                                     nav |-> <<>>])
    ELSE NavNext(p, [p.item[1] EXCEPT !.nav = @ \o r.node, !.j = @ + 1])

\* Link.HTMLNode on l has come to pre: an error and the anchor of a GET link
\* are returned, a form or a button stands before its increment.
LinkBegun(p, l, pre) ==
    IF pre.result # "ok"
    THEN LinkReturned(p, [result |-> pre.result, err |-> pre.err, node |-> <<>>])
    ELSE IF pre.el = "a"
    THEN LinkReturned(p, [result |-> "ok", err |-> "",
                          node |-> <<[el |-> "a", id |-> <<>>, rel |-> l.Rel,
                                      method |-> pre.method, url |-> pre.url]>>])
    ELSE Running([p EXCEPT !.at = "element", !.el = pre.el, !.link = <<l>>,
                           !.pre = <<pre>>])

\* The function Handle registered, serving sv for p, after the error
\* response: content that is nil ends it; as text/html the content's HTMLNode
\* is called; as application/json the content is encoded, its links resolved.
ContentStart(p, sv) ==
    IF sv.content = "" THEN Responded(ServeRest(sv, [writes |-> <<>>, panic |-> FALSE,
                                                     ids |-> <<>>]))
    ELSE IF sv.media = "text/html"
    THEN ItemStart([p EXCEPT !.srv = <<sv>>], ContentLinks(sv.content),
                   sv.content = "unrenderable")
    ELSE IF sv.content = "unrenderable"
    THEN Responded(ServeRest(sv, Render(sv.media, sv.content,
                                        [result |-> "error", err |-> "render failed",
                                         nav |-> <<>>])))
    ELSE IF ContentLinks(sv.content) = <<>>
    THEN Responded(ServeRest(sv, Render(sv.media, sv.content,
                                        [result |-> "ok", err |-> "", nav |-> <<>>])))
    ELSE Running([p EXCEPT !.at = "json", !.srv = <<sv>>])

\* The step of client c ends as out: its call in progress, and what a call
\* that returned leaves behind, in the place of wasItm and wasResp.
Settled(c, out, wasItm, wasResp) ==
    /\ rendering' = [rendering EXCEPT ![c] = out.proc]
    /\ itm' = IF out.itm = <<>> THEN wasItm ELSE out.itm[1]
    /\ resp' = IF out.resp = <<>> THEN wasResp ELSE out.resp[1]

Settle(c, out) == Settled(c, out, itm, resp)

\* Client c calls HTMLNode() on an item with the links given: the call runs
\* up to its first Resolve.
HTMLNodeCall(c, links) ==
    /\ rendering[c].at = "idle"
    /\ Room(Len(links))
    /\ \E out \in {ItemStart(NotRendering, links, FALSE)} :
            Settled(c, out, [NoItem EXCEPT !.links = links], resp)
    /\ UNCHANGED <<regVars, lnk, rq, filters, postProcs, copyVars, docs, schemaCall,
                   javaCall, dispatch, lookup, walk, nextElementID, issued, concVars>>

\* The Resolve of a self link in Item.HTMLNode's first loop.
ItemSelf(c) ==
    /\ rendering[c].at = "self"
    /\ \E f \in {rendering[c].item[1]} :
       \E r \in {Resolve(router, routes, f.links[f.i])} :
       \E out \in {SelfResolved(rendering[c], f, r)} : Settle(c, out)
    /\ UNCHANGED <<regVars, lnk, rq, filters, postProcs, copyVars, docs, schemaCall,
                   javaCall, dispatch, lookup, walk, nextElementID, issued, concVars>>

\* Link.HTMLNode up to the increment, called by Item.HTMLNode's loop: the
\* link is resolved; a GET link is returned as an anchor, an error is
\* returned as it is.
NavBegin(c) ==
    /\ rendering[c].at = "link"
    /\ \E l \in {rendering[c].item[1].rest[rendering[c].item[1].j]} :
       \E pre \in {LinkElement(router, routes, l)} :
       \E out \in {LinkBegun(rendering[c], l, pre)} : Settle(c, out)
    /\ UNCHANGED <<regVars, lnk, rq, filters, postProcs, copyVars, docs, schemaCall,
                   javaCall, dispatch, lookup, walk, nextElementID, issued, concVars>>

\* Link.HTMLNode up to the increment, called by client c on the link l.
HTMLNodeBegin(c, l) ==
    /\ rendering[c].at = "idle"
    /\ Room(1)
    /\ \E pre \in {LinkElement(router, routes, l)} :
       \E out \in {LinkBegun(NotRendering, l, pre)} : Settle(c, out)
    /\ UNCHANGED <<regVars, lnk, rq, filters, postProcs, copyVars, docs, schemaCall,
                   javaCall, dispatch, lookup, walk, nextElementID, issued, concVars>>

\* The increment, and the rest of Link.HTMLNode with the ID: the form or the
\* button, or the error of the form's schema.
HTMLNodeAdd(c) ==
    /\ rendering[c].at = "element"
    /\ \E n \in {AddUint64(nextElementID, 1)} :
            /\ nextElementID' = n
            /\ issued' = issued \o Taken(c, <<[el |-> rendering[c].el, n |-> n,
                                               id |-> ElementID(rendering[c].el, n)]>>)
            /\ \E r \in {LinkNode(rendering[c].link[1], rendering[c].pre[1], n)} :
               \E out \in {LinkReturned(rendering[c], r)} : Settle(c, out)
    /\ UNCHANGED <<regVars, lnk, rq, filters, postProcs, copyVars, docs, schemaCall,
                   javaCall, dispatch, lookup, walk, concVars>>

\* The client of the runs with one call at a time.
Callers == {"c1"}

ItemInit == NoCopy /\ Constructed

ItemNext ==
    \/ HandleCall("r1", PlainRoute)
    \/ \E c \in Callers :
            \/ \E links \in ItemLinkLists : HTMLNodeCall(c, links)
            \/ ItemSelf(c)
            \/ NavBegin(c)
            \/ HTMLNodeAdd(c)

SpecItem == ItemInit /\ [][ItemNext]_vars

(***************************************************************************)
(* Requests against the filters, post-processors and routes registered.    *)
(***************************************************************************)
MaxChain == 3

Filter(id, cont, err) == [id |-> id, cont |-> cont, err |-> err]

PostProc(id, kind) == [id |-> id, kind |-> kind]

FilterKinds ==
    {Filter("pass", TRUE, NilErr), Filter("stop", FALSE, NilErr),
     Filter("deny", FALSE, HTTPErr("denied", 401)),
     Filter("warn", TRUE, HTTPErr("warned", 403))}

PostProcKinds == {PostProc("halt", "halt"), PostProc("clear", "clear"),
                  PostProc("wrap", "wrap"), PostProc("fail", "fail")}

Handler(kind, destKind, typ, method, err, content) ==
    [kind |-> kind, destKind |-> destKind, typ |-> typ, method |-> method, err |-> err,
     content |-> content]

Request(accept, paramAccept, contentType, body, handler) ==
    [accept |-> accept, paramAccept |-> paramAccept, contentType |-> contentType,
     body |-> body, handler |-> handler]

JSONType == <<"application/json">>

ContentHandler == Handler("content", "", "Inner", "", NilErr, "item")

\* The requests served: one for each outcome of the negotiation, one for each
\* way Copy ends, and one for each kind of error a handler returns.
Requests ==
    {Request(a, "", <<>>, Nil, ContentHandler) :
        a \in {<<>>, JSONType, <<"text/plain">>, <<"application/json", "; charset=", "latin1">>,
               <<"*/*">>, <<"*/*", "; charset=", "latin1">>, <<"text plain">>,
               <<"Application/JSON", "; charset=", "UTF-8">>}}
    \cup {Request(<<"text/plain">>, "application/json", <<>>, Nil, ContentHandler),
          Request(JSONType, "", <<>>, Nil,
                  Handler("content", "", "Inner", "", NilErr, "unrenderable"))}
    \cup {Request(JSONType, "", JSONType, ObjAB, Handler("copy", dk, "Inner", "POST", NilErr, "")) :
            dk \in {"ptrStruct", "struct"}}
    \cup {Request(JSONType, "", ct, ObjAB,
                  Handler("copy", "ptrStruct", "Inner", "POST", NilErr, "")) :
            ct \in {<<>>, <<"text/plain">>, <<"application/json", "; charset=", "latin1">>,
                    <<"Application/JSON", "; charset=", "UTF-8">>}}
    \cup {Request(JSONType, "", JSONType, b,
                  Handler("copy", "ptrStruct", "Nest", "POST", NilErr, "")) :
            b \in {Malformed, Obj([key \in {"POSTSubStruct"} |-> Num(1)])}}
    \cup {Request(JSONType, "", <<>>, Nil, Handler("fail", "", "Inner", "", e, c)) :
            e \in {HTTPErr("bad request", 400), ErrNoSuchEntity, PlainErr("failed"),
                   MultiError(<<ErrNoSuchEntity, NilErr>>),
                   MultiError(<<ErrNoSuchEntity, PlainErr("failed")>>)},
            c \in {""}}
    \cup {Request(JSONType, "", <<>>, Nil,
                  Handler("fail", "", "Inner", "", PlainErr("failed"), "item"))}

\* AddFilter.
AddFilter(f) ==
    /\ Len(filters) + Len(postProcs) < MaxChain
    /\ filters' = Append(filters, f)
    /\ UNCHANGED <<postProcs, resp, regVars, lnk, rq, copyVars, itm, docVars, concVars>>

\* AddPostProc.
AddPostProc(f) ==
    /\ Len(filters) + Len(postProcs) < MaxChain
    /\ postProcs' = Append(postProcs, f)
    /\ UNCHANGED <<filters, resp, regVars, lnk, rq, copyVars, itm, docVars, concVars>>

\* The router dispatching a request of client c to a route registered through
\* Handle, and the function registered there running on it up to the call of
\* the handler.
ServeBegin(c, req) ==
    /\ routes # <<>>
    /\ rendering[c].at = "idle"
    /\ Room(Len(ContentLinks(req.handler.content)))
    /\ \E sv \in {ServeFilters(filters, req)} :
       \E out \in {IF sv.at = "done" THEN Responded(sv)
                   ELSE Running([NotRendering EXCEPT !.at = "handler", !.srv = <<sv>>])} :
            Settled(c, out, itm, NoResp)
    /\ UNCHANGED <<regVars, lnk, rq, filters, postProcs, copyVars, docs, schemaCall,
                   javaCall, dispatch, lookup, walk, nextElementID, issued, concVars>>

\* The handler of client c's request returns, and the function runs the
\* post-processors registered by now and writes the error response; it goes
\* on to the first Resolve of the rendering.
ServeChain(c) ==
    /\ rendering[c].at = "handler"
    /\ \E sv \in {rendering[c].srv[1]} :
       \E h \in {CallHandler(sv.req[1].handler, sv.req[1])} :
           IF h.panic
           THEN \E out \in {Responded(ServePanicked(sv, h))} : Settle(c, out)
           ELSE \E pp \in {RunPostProcs(postProcs, 1, h.err, Append(sv.calls, "handler"))} :
                \E out \in {ContentStart(rendering[c],
                                         ServeChained(sv, Len(postProcs), h, pp))} :
                    Settle(c, out)
    /\ UNCHANGED <<regVars, lnk, rq, filters, postProcs, copyVars, docs, schemaCall,
                   javaCall, dispatch, lookup, walk, nextElementID, issued, concVars>>

\* The content of client c's request is encoded as JSON, its links resolved.
ServeEncode(c) ==
    /\ rendering[c].at = "json"
    /\ \E sv \in {rendering[c].srv[1]} :
       \E r \in {MarshalLinks(router, routes, ContentLinks(sv.content), 1)} :
       \E out \in {Responded(ServeRest(sv, Render(sv.media, sv.content,
                                                  [result |-> r.result, err |-> r.err,
                                                   nav |-> <<>>])))} :
            Settle(c, out)
    /\ UNCHANGED <<regVars, lnk, rq, filters, postProcs, copyVars, docs, schemaCall,
                   javaCall, dispatch, lookup, walk, nextElementID, issued, concVars>>

Init == NoCopy /\ Constructed

Next ==
    \/ \E f \in FilterKinds : AddFilter(f)
    \/ \E f \in PostProcKinds : AddPostProc(f)
    \/ HandleCall("r1", PlainRoute)
    \/ \E c \in Callers :
            \/ \E req \in Requests : ServeBegin(c, req)
            \/ ServeChain(c)

Spec == Init /\ [][Next]_vars

\* The requests that tell the runs of the chain apart: refused, content
\* rendered, content that fails to render, a handler's error of each kind,
\* and an error together with content.
ChainRequests ==
    {req \in Requests :
        /\ req.handler.kind \in {"content", "fail"}
        /\ req.accept \in {JSONType, <<"text/plain">>}
        /\ req.paramAccept = ""
        /\ req.handler.err \in {NilErr, ErrNoSuchEntity, PlainErr("failed")}}

ChainNext ==
    \/ \E f \in FilterKinds : AddFilter(f)
    \/ \E f \in PostProcKinds : AddPostProc(f)
    \/ HandleCall("r1", PlainRoute)
    \/ \E c \in Callers :
            \/ \E req \in ChainRequests : ServeBegin(c, req)
            \/ ServeChain(c)

SpecChain == Init /\ [][ChainNext]_vars

(***************************************************************************)
(* HandleError on the errors drawn.                                        *)
(***************************************************************************)
MaxErrs == 3

\* The errors a MultiError holds an entry for: nil for an element that
\* succeeded.
SubErrors == {NilErr, ErrNoSuchEntity, PlainErr("failed"), HTTPErr("gone", 404)}

MultiErrors ==
    UNION {{MultiError(errs) : errs \in [1..n -> SubErrors]} : n \in 0..MaxErrs}

Errors ==
    {HTTPErr(body, status) : body \in {"", "bad request", "gone"},
                             status \in {400, 401, 404, 409, 500, 503}}
    \cup {ErrNoSuchEntity, PlainErr("failed"), PlainErr("datastore: no such entity"),
          PlainErr("")}
    \cup MultiErrors

\* A call HandleError(w, err) on a fresh http.ResponseWriter.
HandleErrorCall(err) ==
    /\ resp' = [NoResp EXCEPT !.err = err, !.writes = <<HandleError(err)>>]
    /\ UNCHANGED <<filters, postProcs, regVars, lnk, rq, copyVars, itm, docVars, concVars>>

ErrInit == NoCopy /\ Constructed

ErrNext == \E err \in Errors : HandleErrorCall(err)

SpecErr == ErrInit /\ [][ErrNext]_vars

(***************************************************************************)
(* NewDocType called again and again, for the same and for other types and *)
(* methods.                                                                *)
(***************************************************************************)
MaxDocs == 2

DocTypes == {"Outer", "Wrapper", "Holder", "Stats"}

DocMethods == {"", "GET", "POST", "PUT"}

NewDocTypeCall(typ, method) ==
    /\ Len(docs) < MaxDocs
    /\ \E err \in {NewDocTypeErr(typ, method)} :
            docs' = Append(docs, [typ |-> typ, method |-> method, err |-> err,
                                  d |-> IF err = "" THEN <<NewDocType(typ, method)>>
                                        ELSE <<>>])
    /\ UNCHANGED <<regVars, lnk, rq, reqVars, copyVars, itm, schemaCall, javaCall,
                 concVars, dispatch, lookup, walk,
                 renderVars>>

DocInit == NoCopy /\ Constructed

DocNext == \E typ \in DocTypes, method \in DocMethods : NewDocTypeCall(typ, method)

SpecDoc == DocInit /\ [][DocNext]_vars

(***************************************************************************)
(* DocType.ToJSONSchema called on the DocType of each type, as             *)
(* Link.MarshalJSON and Link.HTMLNode call it.                             *)
(***************************************************************************)
ToJSONSchemaCall(typ, method) ==
    /\ \E r \in {ToJSONSchema(NewDocType(typ, method))} :
            schemaCall' = [typ |-> typ, method |-> method, called |-> TRUE,
                           err |-> r.err, errTyp |-> r.typ,
                           schema |-> IF r.err = "" THEN <<r.schema>>
                                      ELSE <<>>]
    /\ UNCHANGED <<regVars, lnk, rq, reqVars, copyVars, itm, docs, javaCall,
                 concVars, dispatch, lookup, walk,
                 renderVars>>

SchemaInit == NoCopy /\ Constructed

SchemaNext ==
    \E typ \in TypeNames, method \in DocMethods : ToJSONSchemaCall(typ, method)

SpecSchema == SchemaInit /\ [][SchemaNext]_vars

(***************************************************************************)
(* Resource.toJavaClasses called for a resource of each type, as           *)
(* GenerateJava calls it.  On an error the map returned is nil.            *)
(***************************************************************************)
ToJavaClassesCall(typ, meth) ==
    /\ \E r \in {toJavaClasses(typ, meth)} :
            javaCall' = [typ |-> typ, meth |-> meth, called |-> TRUE,
                         err |-> r.err, errTyp |-> r.typ,
                         classes |-> IF r.err = "" THEN r.jc.classes
                                     ELSE NoClasses.classes,
                         emitted |-> r.jc.emitted]
    /\ UNCHANGED <<regVars, lnk, rq, reqVars, copyVars, itm, docs, schemaCall,
                 concVars, dispatch, lookup, walk,
                 renderVars>>

JavaInit == NoCopy /\ Constructed

JavaNext == \E typ \in TypeNames, meth \in DocMethods : ToJavaClassesCall(typ, meth)

SpecJava == JavaInit /\ [][JavaNext]_vars

(***************************************************************************)
(* DocType.GetField and DocType.ToJSONSchema on the DocTypes of struct     *)
(* types that embed structs.                                               *)
(***************************************************************************)
LookupTypes == {"Twin", "Outer", "Wrapper"}

LookupNames == {"N", "L", "R", "A", "B", "Head", "Inner"}

GetFieldCall(typ, method, n) ==
    /\ \E f \in {GetField(NewDocType(typ, method), n)} :
            lookup' = [typ |-> typ, method |-> method, n |-> n, called |-> TRUE,
                       found |-> f # <<>>, field |-> f]
    /\ UNCHANGED <<regVars, lnk, rq, reqVars, copyVars, itm, docs, schemaCall,
                   javaCall, dispatch, concVars, walk, renderVars>>

LookupInit == NoCopy /\ Constructed

LookupNext ==
    \E typ \in LookupTypes, method \in DocMethods :
        \/ \E n \in LookupNames : GetFieldCall(typ, method, n)
        \/ ToJSONSchemaCall(typ, method)

SpecLookup == LookupInit /\ [][LookupNext]_vars

(***************************************************************************)
(* NewDocType as the goroutine runs it: one call frame per NewDocType and  *)
(* NewDocFields call in progress.  The frame of NewDocType has i = 0       *)
(* before its switch and 1 after the call the switch made; the frame of    *)
(* NewDocFields has the loop index i, counted from 1.                      *)
(***************************************************************************)
\* The deepest stack of frames the runtime grows a goroutine's stack to; a
\* call beyond it ends the process with "fatal error: stack overflow".
MaxStack == 12

WalkTypes == {"Tree", "Node", "Dept", "Person", "Outer", "Nest", "Twin", "[]Inner"}

Frame(fn, typ, i) == [fn |-> fn, typ |-> typ, i |-> i]

\* The call of fn on typ made by the top frame, which resumes at i.
Push(w, i, fn, typ) ==
    IF Len(w.stack) = MaxStack
    THEN [w EXCEPT !.status = "overflow"]
    ELSE [w EXCEPT !.stack = Append([@ EXCEPT ![Len(@)].i = i],
                                    Frame(fn, typ, IF fn = "NewDocType" THEN 0 ELSE 1)),
                   !.made = IF fn = "NewDocType" THEN @ + 1 ELSE @]

\* The top frame returns.
Pop(w) ==
    [w EXCEPT !.stack = SubSeq(@, 1, Len(@) - 1),
              !.status = IF Len(w.stack) = 1 THEN "returned" ELSE @]

\* The next step of the top frame.
Step(w) ==
    LET top == w.stack[Len(w.stack)]
        field == GoType(top.typ).fields[top.i]
    IN  IF top.fn = "NewDocType"
        THEN IF top.i = 0 /\ Kind(top.typ) = "struct"
             THEN Push(w, 1, "NewDocFields", top.typ)
             ELSE IF top.i = 0 /\ Kind(top.typ) = "slice"
             THEN Push(w, 1, "NewDocType", Elem(top.typ))
             ELSE Pop(w)
        ELSE IF top.i > NumField(top.typ) THEN Pop(w)
             ELSE IF ~FieldFound(field, w.method)
             THEN [w EXCEPT !.stack[Len(w.stack)].i = top.i + 1]
             ELSE IF field.anon
             THEN Push(w, top.i + 1, "NewDocFields", field.type)
             ELSE Push(w, top.i + 1, "NewDocType", field.type)

WalkCall(typ, method) ==
    /\ walk.status \in {"idle", "returned"}
    /\ walk' = [typ |-> typ, method |-> method, status |-> "running",
                stack |-> <<Frame("NewDocType", typ, 0)>>, made |-> 1]
    /\ UNCHANGED <<regVars, lnk, rq, reqVars, copyVars, itm, docs, schemaCall,
                   javaCall, dispatch, concVars, lookup, renderVars>>

WalkStep ==
    /\ walk.status = "running"
    /\ walk' = Step(walk)
    /\ UNCHANGED <<regVars, lnk, rq, reqVars, copyVars, itm, docs, schemaCall,
                   javaCall, dispatch, concVars, lookup, renderVars>>

WalkInit == NoCopy /\ Constructed

WalkNext ==
    \/ \E typ \in WalkTypes, method \in DocMethods : WalkCall(typ, method)
    \/ WalkStep

\* The goroutine that made the call keeps running until the call returns or
\* the process ends.
SpecWalk == WalkInit /\ [][WalkNext]_vars /\ WF_vars(WalkStep)

(***************************************************************************)
(* Concurrent renders: the clients' requests are served and their calls of *)
(* Link.HTMLNode run at once; every read of a package variable and every   *)
(* increment of nextElementID is a step of its own, so the steps of         *)
(* different clients interleave.                                           *)
(***************************************************************************)
RenderLinks ==
    {Link("edit", PlainRoute.name, params, p[1], p[2], <<>>) :
        params \in {<<>>, <<"id">>},
        p \in {<<"", "">>, <<"POST", "Inner">>, <<"PUT", "Inner3">>, <<"PUT", "Inner">>,
                <<"POST", "Holder">>, <<"DELETE", "">>}}

RenderInit == NoCopy /\ Constructed

\* Requests for content with links, as text/html and as application/json.
RenderRequests ==
    {Request(a, "", <<>>, Nil, Handler("content", "", "Inner", "", NilErr, "linked")) :
        a \in {<<>>, JSONType}}

RenderNext ==
    \/ HandleCall("r1", PlainRoute)
    \/ postProcs = <<>> /\ AddPostProc(PostProc("fail", "fail"))
    \/ \E c \in Clients :
            \/ \E req \in RenderRequests : ServeBegin(c, req)
            \/ ServeChain(c)
            \/ ServeEncode(c)
            \/ NavBegin(c)
            \/ \E l \in RenderLinks : HTMLNodeBegin(c, l)
            \/ HTMLNodeAdd(c)

SpecRender == RenderInit /\ [][RenderNext]_vars

(***************************************************************************)
(* Requests dispatched to the routes of registered resources.              *)
(***************************************************************************)
DispatchResources ==
    {UserResource, WithFunc(NoResource, "Load", GameFunc),
     WithFunc(WithFunc(NoResource, "Create", GameFunc), "Load", GameValueFunc)}

\* What a resource function of the shape fVal can return: a nil or non-nil
\* pointer, or a struct value, and any error.
Returns(fVal) ==
    {[obj |-> o, err |-> e] :
        o \in (IF Nilable(fVal.out[1]) THEN {"nil", Deref(fVal.out[1])}
               ELSE {fVal.out[1]}),
        e \in {NilErr, PlainErr("failed"), ErrNoSuchEntity}}

\* A request reaches the route HandleResource registered for slot meth of the
\* i-th resource, and the function registered there runs.
DispatchCall(i, meth, ret) ==
    /\ i \in DOMAIN resources
    /\ resourceFunc(resources[i], meth) # NoFunc
    /\ ret \in Returns(resourceFunc(resources[i], meth))
    /\ \E r \in {Dispatch(resourceFunc(resources[i], meth), ret)} :
            dispatch' = [re |-> i, meth |-> meth, ret |-> <<ret>>,
                         invoked |-> r.invoked, panic |-> r.panic, err |-> r.err,
                         content |-> r.content]
    /\ UNCHANGED <<regVars, lnk, rq, reqVars, copyVars, itm, docs, schemaCall,
                   javaCall, concVars, lookup, walk, renderVars>>

DispatchInit == NoCopy /\ Constructed

DispatchNext ==
    \/ \E re \in DispatchResources : HandleResourceCall("r1", re)
    \/ \E i \in 1..MaxCalls, meth \in Slots,
          ret \in UNION {Returns(f) : f \in {UserFunc, GameFunc, GameValueFunc}} :
            DispatchCall(i, meth, ret)

SpecDispatch == DispatchInit /\ [][DispatchNext]_vars

(***************************************************************************)
(* Requests served concurrently.  net/http runs the function Handle        *)
(* registered once per request, each run in its own goroutine; a run is    *)
(* split where the handler f it calls uses its ResponseWriter and Request. *)
(* The objects a run allocates live in writers and requests, and the run   *)
(* holds their addresses.                                                  *)
(***************************************************************************)
\* An allocation that hands out the object allocated last again.
NewReusingLast(heap) == IF heap = <<>> THEN 1 ELSE Len(heap)

\* The address of a newly allocated object.
New(heap) == Len(heap) + 1

Store(heap, a, obj) ==
    [i \in 1..(IF a > Len(heap) THEN a ELSE Len(heap)) |->
        IF i = a THEN obj ELSE heap[i]]

HostOf(c) == <<c, ".example.com">>

\* The run for client c starts: it passes negotiation and allocates
\* w := &responseWriter{...} and r := &request{...}.
Begin(c, tls) ==
    /\ inflight[c].at = "idle"
    /\ \E w \in {New(writers)}, r \in {New(requests)} :
            /\ writers' = Store(writers, w, [httpW |-> c, content |-> <<>>])
            /\ requests' = Store(requests, r, NewRequest(tls, HostOf(c)))
            /\ inflight' = [inflight EXCEPT ![c] = [Idle EXCEPT !.at = "handler",
                                                               !.w = w, !.r = r]]
    /\ UNCHANGED <<regVars, lnk, rq, reqVars, copyVars, itm, docVars>>

\* The handler of c's run calls r.DecorateLinks with a decorator of its own.
HandlerDecorateLinks(c) ==
    /\ inflight[c].at = "handler"
    /\ Len(requests[inflight[c].r].linkDecorators) < MaxDecorators
    /\ requests' = [requests EXCEPT ![inflight[c].r] =
                        DecorateLinks(@, Decorator(c, FALSE))]
    /\ UNCHANGED <<regVars, lnk, rq, reqVars, copyVars, itm, docVars, writers,
                   inflight>>

\* The handler of c's run calls r.NewLink and keeps the link.
HandlerNewLink(c, l) ==
    /\ inflight[c].at = "handler"
    /\ inflight' = [inflight EXCEPT ![c].link =
                        <<NewLink(requests[inflight[c].r], l)>>]
    /\ UNCHANGED <<regVars, lnk, rq, reqVars, copyVars, itm, docVars, writers,
                   requests>>

\* The handler of c's run calls w.SetContent with content of its own.
HandlerSetContent(c) ==
    /\ inflight[c].at = "handler"
    /\ writers' = [writers EXCEPT ![inflight[c].w].content = <<[by |-> c]>>]
    /\ UNCHANGED <<regVars, lnk, rq, reqVars, copyVars, itm, docVars, requests,
                   inflight>>

\* The handler of c's run returns nil and the run renders w.content, if any,
\* to the http.ResponseWriter it wraps.
End(c) ==
    /\ inflight[c].at = "handler"
    /\ inflight' = [inflight EXCEPT ![c].at = "done",
                                    ![c].written = writers[inflight[c].w].content]
    /\ UNCHANGED <<regVars, lnk, rq, reqVars, copyVars, itm, docVars, writers,
                   requests>>

ConcInit == NoCopy /\ Constructed

ConcNext ==
    \E c \in Clients :
        \/ \E tls \in BOOLEAN : Begin(c, tls)
        \/ HandlerDecorateLinks(c)
        \/ \E l \in LinkLiterals : HandlerNewLink(c, l)
        \/ HandlerSetContent(c)
        \/ End(c)

SpecConc == ConcInit /\ [][ConcNext]_vars

(***************************************************************************)
(* Properties of the request lifecycle, links and registration.            *)
(***************************************************************************)
\* The request served last had its handler call Copy, Copy returned an error,
\* and that error reached the end of the post-processors as it was.
CopyErrorPropagated ==
    /\ resp.req # <<>>
    /\ resp.copied = "error"
    /\ resp.handlerErr # NilErr
    /\ resp.err = resp.handlerErr

\* C6: an error returned by Copy (malformed JSON body, unsupported
\* Content-Type or charset, destination that is not a pointer to struct) and
\* propagated by the handler is answered with a status of the 4xx class.
C6_CopyErrorAnswered4xx ==
    CopyErrorPropagated =>
        /\ resp.writes # <<>>
        /\ resp.writes[1].status >= 400
        /\ resp.writes[1].status <= 499

\* A malformed body whose decode error the handler returned, with no
\* post-processor registered.
C6_Witness ==
    /\ CopyErrorPropagated
    /\ postProcs = <<>>
    /\ resp.req[1].body = Malformed

\* The link of the last Link call names a route never registered with the
\* package's router.
Unregistered == lnk.op # "" /\ router # "" /\ RouterGet(routes, lnk.link[1].Route) = <<>>

\* C7: resolving a link whose Route was never registered with the router
\* returns a non-nil error: it does not panic and does not return a URL with
\* a nil error.
C7_UnregisteredRouteIsAnError ==
    Unregistered => lnk.result = "error" /\ lnk.err # ""

\* Resolve on a link to a route never registered, with a router that has
\* other routes: the nil route is dereferenced.
C7_Witness == Unregistered /\ lnk.op = "Resolve" /\ lnk.result = "panic"

\* The last Link call is a MarshalJSON that returned the JSON of a POST or PUT
\* link whose type has no field visible for the method.
NoVisibleField ==
    /\ lnk.op = "MarshalJSON"
    /\ lnk.result = "ok"
    /\ lnk.link[1].Method \in {"POST", "PUT"}
    /\ lnk.link[1].Type # ""
    /\ \A f \in FieldsOf(lnk.link[1].Type) : ~Tagged(f, lnk.link[1].Method)

\* C8: the JSON form of a POST or PUT link whose Type has no field visible for
\* the method has no schema member.
C8_NoSchemaWithoutVisibleFields ==
    NoVisibleField => "JSONSchema" \notin lnk.members

C8_Witness == NoVisibleField /\ lnk.link[1].Type = "PutOnly" /\ lnk.link[1].Method = "POST"

\* The slots of the resource that hold a handler.
Bound(re) == {m \in Slots : resourceFunc(re, m) # NoFunc}

\* The handler is a func of (ResponseWriter, Request) to (Itemer, error).
WellShaped(f) ==
    /\ f.kind = "func"
    /\ f.in = <<"ResponseWriter", "Request">>
    /\ Len(f.out) = 2
    /\ f.out[1] \in {"*User", "*Game", "Game"}
    /\ f.out[2] = "error"

\* The type a well-shaped handler returns, pointers taken off.
ResourceType(f) == IF f.out[1] = "*User" THEN "User" ELSE "Game"

\* Two bound handlers of the resource return different types.
Mismatched(re) ==
    \E a \in Bound(re), b \in Bound(re) :
        /\ WellShaped(resourceFunc(re, a))
        /\ WellShaped(resourceFunc(re, b))
        /\ ResourceType(resourceFunc(re, a)) # ResourceType(resourceFunc(re, b))

\* C9: HandleResource on a resource whose bound handlers do not all return the
\* same type, pointers taken off, panics, whichever slots the two handlers are
\* in; when every bound handler has the right shape and the router is the
\* package's, the panic is the one of the type comparison.
C9_MismatchedTypesPanic ==
    (regCall.op = "HandleResource" /\ Mismatched(regCall.re[1])) =>
        /\ regCall.panic # ""
        /\ ((\A m \in Bound(regCall.re[1]) : WellShaped(resourceFunc(regCall.re[1], m)))
              /\ router = regCall.ro)
            => regCall.panic = "not the same resource type"

\* Handlers of different types in the last two slots only, on a router that
\* already had a route.
C9_Witness ==
    /\ regCall.op = "HandleResource"
    /\ Bound(regCall.re[1]) = {"Delete", "Load"}
    /\ Mismatched(regCall.re[1])
    /\ regCall.n = 2
    /\ regCall.panic = "not the same resource type"

\* C10: a bound handler that is not a func of (ResponseWriter, Request) to
\* (Itemer, error) makes HandleResource panic, and the call registers no route
\* for that handler's method.
C10_WrongShapePanicsAndRegistersNothing ==
    regCall.op = "HandleResource" =>
        \A m \in Bound(regCall.re[1]) :
            ~WellShaped(resourceFunc(regCall.re[1], m)) =>
                /\ regCall.panic # ""
                /\ \A i \in DOMAIN regCall.added :
                        regCall.added[i].f # [kind |-> "resource", meth |-> m]

\* A handler with a first result that is no Itemer in the Delete slot: the
\* routes of Create and Update were registered, none for Delete and Load.
C10_Witness ==
    /\ regCall.op = "HandleResource"
    /\ regCall.re[1].Delete.kind = "func"
    /\ ~WellShaped(regCall.re[1].Delete)
    /\ regCall.panic = "isn't a func with Itemer as its first return value"
    /\ Len(regCall.added) = 2

\* A call of Handle or HandleResource is made in the step.
RegistrationCall == regCall'.n = regCall.n + 1

\* The first slot of the resource that holds a handler, in the order
\* HandleResource goes through them.
FirstBound(re) ==
    ResourceMethods[CHOOSE i \in DOMAIN ResourceMethods :
                        /\ ResourceMethods[i] \in Bound(re)
                        /\ \A j \in 1..(i - 1) : ResourceMethods[j] \notin Bound(re)]

\* The call recorded in c gets as far as Handle's registration: it is a Handle
\* call, or a HandleResource call on a resource whose first bound handler has
\* the right shape, or that binds no handler and has a lister.
ReachesHandle(c) ==
    \/ c.op = "Handle"
    \/ /\ c.op = "HandleResource"
       /\ IF Bound(c.re[1]) = {} THEN c.re[1].Listers # <<>>
          ELSE WellShaped(resourceFunc(c.re[1], FirstBound(c.re[1])))

\* C11: the package's router is the router passed to the first call of Handle
\* or HandleResource; a later call passing another router panics before it
\* registers a route and leaves the stored router as it was.
C11_RouterIsTheFirstCallsRouter ==
    [][RegistrationCall =>
        /\ regCall.n = 0 => router' = regCall'.ro
        /\ router # "" => router' = router
        /\ (router # "" /\ regCall'.ro # router) =>
                /\ regCall'.panic # ""
                /\ regCall'.added = <<>>
                /\ routes' = routes]_vars

\* C11, amended: the package's router is the router passed to the first call
\* that gets as far as Handle's registration, and never changes afterwards; a
\* later call that gets there with another router panics with the one-router
\* message before it registers a route; a call that does not get there
\* leaves the router as it was.
C11_RouterIsTheFirstRegisteringCallsRouter ==
    [][RegistrationCall =>
        /\ router # "" => router' = router
        /\ router = "" =>
                router' = IF ReachesHandle(regCall') THEN regCall'.ro ELSE ""
        /\ (router # "" /\ regCall'.ro # router /\ ReachesHandle(regCall')) =>
                /\ regCall'.panic = "only one *mux.Router allowed"
                /\ regCall'.added = <<>>
                /\ routes' = routes]_vars

\* A resource with every slot bound, passed with a second router after a route
\* was registered on the first: the call panicked and added nothing.
C11_Witness ==
    /\ regCall.op = "HandleResource"
    /\ regCall.n = 2
    /\ router = "r1"
    /\ regCall.ro = "r2"
    /\ Bound(regCall.re[1]) = Slots
    /\ regCall.panic = "only one *mux.Router allowed"
    /\ regCall.added = <<>>
    /\ routes # <<>>

\* The HTTP verb the spec gives a resource method.
Verb(m) ==
    CASE m = "Create" -> "POST"
      [] m = "Update" -> "PUT"
      [] m = "Delete" -> "DELETE"
      [] m = "Load" -> "GET"

\* The routes the last call added for the resource method m.
AddedFor(m) ==
    {i \in DOMAIN regCall.added : regCall.added[i].f = [kind |-> "resource", meth |-> m]}

\* The last call was a HandleResource that returned.
ResourceRegistered == regCall.op = "HandleResource" /\ regCall.panic = ""

\* Every bound method of the resource registered has one route, of the name
\* Type.Method and the method's verb, at a path that satisfies Path.
RoutesAsNamed(Path(_, _, _)) ==
    ResourceRegistered =>
        \A m \in Bound(regCall.re[1]) :
            /\ Cardinality(AddedFor(m)) = 1
            /\ \A i \in AddedFor(m) :
                  /\ regCall.added[i].name =
                        <<ResourceType(resourceFunc(regCall.re[1], m)), ".", m>>
                  /\ regCall.added[i].methods = <<Verb(m)>>
                  /\ Path(regCall.re[1], m, regCall.added[i].pattern)

\* The paths as the claim has them: each default depends on its own field only.
DefaultsToTypeName(re, m, pattern) ==
    /\ (m = "Create" /\ re.CreatePath = <<>>) =>
            pattern = <<"/", ResourceType(resourceFunc(re, m))>>
    /\ (m # "Create" /\ re.FullPath = <<>>) =>
            pattern = <<"/", ResourceType(resourceFunc(re, m)), "/{id}">>

\* The paths with the instance path defaulting to the create path.
DefaultsToCreatePath(re, m, pattern) ==
    pattern =
        IF m = "Create"
        THEN IF re.CreatePath = <<>>
             THEN <<"/", ResourceType(resourceFunc(re, m))>> ELSE re.CreatePath
        ELSE IF re.FullPath # <<>> THEN re.FullPath
        ELSE IF re.CreatePath # <<>> THEN re.CreatePath \o <<"/{id}">>
        ELSE <<"/", ResourceType(resourceFunc(re, m)), "/{id}">>

\* C12: each bound method of a resource is registered under the route name
\* TypeName.MethodName with the verb POST, PUT, DELETE or GET of Create,
\* Update, Delete or Load; with CreatePath not set Create is served at
\* /TypeName, and with FullPath not set Update, Delete and Load are served at
\* /TypeName/{id}.
C12_RoutesNamedAndServedAtTypeName == RoutesAsNamed(DefaultsToTypeName)

\* C12, amended: names and verbs as above; Create is served at CreatePath, or
\* at /TypeName when CreatePath is not set; Update, Delete and Load are served
\* at FullPath, or when FullPath is not set at the create path followed by
\* /{id}, which is /TypeName/{id} only when CreatePath is not set either.
C12_RoutesNamedAndServedAtCreatePath == RoutesAsNamed(DefaultsToCreatePath)

\* A resource with every slot bound and only CreatePath set: the instance
\* routes are below the create path.
C12_Witness ==
    /\ ResourceRegistered
    /\ Bound(regCall.re[1]) = Slots
    /\ regCall.re[1].CreatePath = <<"/", "People">>
    /\ regCall.re[1].FullPath = <<>>
    /\ \E i \in AddedFor("Update") :
            regCall.added[i].pattern = <<"/", "People", "/{id}">>

\* The last step was a call of HandleError on its own.
ErrorHandled == resp.req = <<>> /\ resp.err # NilErr /\ Len(resp.writes) = 1

\* Every entry of the MultiError that is an error is the not-found sentinel.
AllNotFound(err) ==
    \A i \in DOMAIN err.errs : err.errs[i] # NilErr => err.errs[i] = ErrNoSuchEntity

\* C13: HandleError answers an HTTPErr with its body and status, the not-found
\* sentinel with 404, a MultiError with 404 exactly when every error it holds
\* is the sentinel (a nil entry is an element without error), and every other
\* error, a MultiError of another content included, with 500 and the error's
\* message as the body.
C13_HandleErrorMapping ==
    ErrorHandled =>
        CASE resp.err.k = "HTTPErr" ->
                /\ resp.writes[1].status = resp.err.status
                /\ resp.writes[1].body = <<resp.err.msg>>
          [] resp.err.k = "ErrNoSuchEntity" -> resp.writes[1].status = 404
          [] resp.err.k = "MultiError" ->
                /\ resp.writes[1].status = 404 <=> AllNotFound(resp.err)
                /\ resp.writes[1].status = 500 <=> ~AllNotFound(resp.err)
                /\ resp.writes[1].body = ErrorText(resp.err)
          [] OTHER ->
                /\ resp.writes[1].status = 500
                /\ resp.writes[1].body = ErrorText(resp.err)

\* A MultiError of three entries that are nil or the sentinel, answered 404.
C13_Witness ==
    /\ ErrorHandled
    /\ resp.err.k = "MultiError"
    /\ Len(resp.err.errs) = 3
    /\ resp.err.errs[1] = NilErr
    /\ resp.err.errs[2] = ErrNoSuchEntity
    /\ AllNotFound(resp.err)
    /\ resp.writes[1].status = 404

\* The media type the request asks for: the accept query parameter when there
\* is one, else the media type of the Accept header, and text/html when the
\* header is absent, cannot be parsed or is the wildcard.
RequestedMedia(req) ==
    IF req.paramAccept # "" THEN req.paramAccept
    ELSE IF req.accept = <<>> \/ req.accept[1] \in {"text plain", "*/*"} THEN "text/html"
    ELSE ToLower(req.accept[1])

\* The character set the Accept header asks for, utf-8 when it names none.
RequestedCharset(req) ==
    IF Len(req.accept) = 3 THEN ToLower(req.accept[3]) ELSE "utf-8"

\* The request is answered 406 and nothing else happens.
Refused ==
    /\ Len(resp.writes) = 1
    /\ resp.writes[1].status = 406
    /\ resp.calls = <<>>
    /\ resp.content = ""

\* C14: a request whose media type, from the accept query parameter or else
\* from the Accept header, is neither application/json nor text/html, or whose
\* Accept header asks for a character set other than utf-8, is answered 406,
\* and no filter, handler or post-processor is called.
C14_UnacceptableIsRefused ==
    resp.req # <<>> =>
        ((RequestedMedia(resp.req[1]) \notin {"application/json", "text/html"}
            \/ RequestedCharset(resp.req[1]) # "utf-8")
          => Refused)

\* An Accept header of the wildcard with charset=latin1: the function
\* replaces the parameters by charset=utf-8 and serves text/html.
C14_Witness ==
    /\ resp.req # <<>>
    /\ resp.req[1].accept = <<"*/*", "; charset=", "latin1">>
    /\ resp.media = "text/html"
    /\ resp.calls # <<>>
    /\ \E i \in DOMAIN resp.writes : resp.writes[i].status = 200

\* The index of the first decorator of the list that fails, 0 when none does.
FirstFailing(ds) ==
    IF \A i \in DOMAIN ds : ~ds[i].fails THEN 0
    ELSE CHOOSE i \in DOMAIN ds : ds[i].fails /\ \A j \in 1..(i - 1) : ~ds[j].fails

\* The last Link call resolved a link made by a request, and the router built
\* the URL of its route.
ResolvedFromRequest ==
    /\ lnk.op = "Resolve"
    /\ lnk.link[1].baseHost # ""
    /\ lnk.result # "panic"
    /\ lnk.err \notin {"mux: number of parameters must be multiple of two",
                       "mux: missing route variable"}

\* A call of NewLink returns the link with the scheme and host of the request
\* and the decorators registered with it so far.
LinkOfTheRequest ==
    (lnk'.op = "NewLink" /\ lnk' # lnk) =>
        /\ lnk'.link[1].baseScheme = (IF rq[1].tls THEN "https" ELSE "http")
        /\ lnk'.link[1].baseHost = rq[1].host
        /\ lnk'.link[1].linkDecorators = rq[1].linkDecorators

\* Resolve called the decorators of the link in order up to the first that
\* fails, each on a URL that had the link's scheme and host, and returned the
\* URL, or the error of the decorator that failed and no URL.
DecoratedInOrder ==
    ResolvedFromRequest =>
        /\ Len(lnk.calls) =
                (IF FirstFailing(lnk.link[1].linkDecorators) = 0
                 THEN Len(lnk.link[1].linkDecorators)
                 ELSE FirstFailing(lnk.link[1].linkDecorators))
        /\ \A i \in DOMAIN lnk.calls :
                /\ lnk.calls[i].id = lnk.link[1].linkDecorators[i].id
                /\ lnk.calls[i].scheme = lnk.link[1].baseScheme
                /\ lnk.calls[i].host = lnk.link[1].baseHost
        /\ IF FirstFailing(lnk.link[1].linkDecorators) = 0
           THEN /\ lnk.result = "ok"
                /\ lnk.url.scheme = lnk.link[1].baseScheme
                /\ lnk.url.host = lnk.link[1].baseHost
           ELSE /\ lnk.result = "error"
                /\ lnk.url = NoURL
                /\ lnk.err = DecoratorErr(
                        lnk.link[1].linkDecorators[
                            FirstFailing(lnk.link[1].linkDecorators)].id)

\* C15: a link made by a request has the scheme and host of the request and
\* the decorators registered with it so far; Resolve sets the URL's scheme and
\* host from them and then calls the decorators in the order of registration;
\* when one returns an error none after it is called and Resolve returns that
\* error and no URL.
C15_DecoratorsInOrderUntilOneFails ==
    [][LinkOfTheRequest]_vars /\ []DecoratedInOrder

\* A link with the decorators d1, d2 where d2 fails, resolved after d3 was
\* registered with the request too: d1 and d2 were called and d2's error
\* returned.
C15_Witness ==
    /\ ResolvedFromRequest
    /\ Len(lnk.link[1].linkDecorators) = 2
    /\ FirstFailing(lnk.link[1].linkDecorators) = 2
    /\ Len(lnk.calls) = 2
    /\ lnk.result = "error"
    /\ lnk.link[1].baseScheme = "http"

\* Whether the link or node is of the GET group.
IsGet(method) == method = "GET" \/ method = ""

\* The last HTMLNode call returned a node.
Rendered == itm.result = "ok"

\* C16: the nav element of an item holds the links that are not of relation
\* self and no others, every GET link before every link of another method,
\* and in the GET group as in the group of the others the links are in
\* ascending order of Rel.
C16_NavSortedByGetThenRel ==
    Rendered =>
        /\ Len(itm.nav) = Len(SelectSeq(itm.links, LAMBDA l : l.Rel # "self"))
        /\ \A rel \in {"a", "b", "self"}, m \in {"GET", "POST", "PUT"} :
                Cardinality({i \in DOMAIN itm.nav :
                                itm.nav[i].rel = rel /\ itm.nav[i].method = m})
                    = IF rel = "self" THEN 0
                      ELSE Cardinality({i \in DOMAIN itm.links :
                                /\ itm.links[i].Rel = rel
                                /\ (IF itm.links[i].Method = "" THEN "GET"
                                    ELSE itm.links[i].Method) = m})
        /\ \A i \in DOMAIN itm.nav, j \in DOMAIN itm.nav :
                i < j =>
                    /\ IsGet(itm.nav[j].method) => IsGet(itm.nav[i].method)
                    /\ IsGet(itm.nav[i].method) = IsGet(itm.nav[j].method)
                         => ~StringLess(itm.nav[j].rel, itm.nav[i].rel)

\* A POST link b added before a PUT link a: the nav element has them in that
\* order.
C16_Witness ==
    /\ Rendered
    /\ Len(itm.links) = 2
    /\ itm.links[1].Rel = "b" /\ itm.links[1].Method = "POST"
    /\ itm.links[2].Rel = "a" /\ itm.links[2].Method = "PUT"
    /\ itm.nav[1].rel = "b"
    /\ itm.nav[2].rel = "a"

(***************************************************************************)
(* The descriptors NewDocType builds.                                      *)
(***************************************************************************)
\* Where a field is declared in a struct type: <<i>> for its i-th field,
\* <<i, j>> for the j-th field of the struct embedded as its i-th field.
DeclaredPaths(typ) ==
    {<<i>> : i \in {k \in 1..NumField(typ) : ~GoType(typ).fields[k].anon}}
        \cup UNION {{<<i, j>> : j \in 1..NumField(GoType(typ).fields[i].type)} :
                        i \in {k \in 1..NumField(typ) : GoType(typ).fields[k].anon}}

DeclaredAt(typ, p) ==
    IF Len(p) = 1 THEN GoType(typ).fields[p[1]]
    ELSE GoType(GoType(typ).fields[p[1]].type).fields[p[2]]

DeclaredBefore(p, q) ==
    \/ p[1] < q[1]
    \/ p[1] = q[1] /\ Len(p) = 2 /\ Len(q) = 2 /\ p[2] < q[2]

PathsNamed(typ, name) == {p \in DeclaredPaths(typ) : DeclaredAt(typ, p).name = name}

InDeclarationOrder(typ, d) ==
    /\ \A k \in DOMAIN d.Fields : PathsNamed(typ, d.Fields[k].Name) # {}
    /\ \A k \in DOMAIN d.Fields, l \in DOMAIN d.Fields :
            k < l => \A p \in PathsNamed(typ, d.Fields[k].Name),
                        q \in PathsNamed(typ, d.Fields[l].Name) :
                            DeclaredBefore(p, q)

SameDescriptors ==
    \A i \in DOMAIN docs, j \in DOMAIN docs :
        (docs[i].typ = docs[j].typ /\ docs[i].method = docs[j].method)
            => docs[i].d = docs[j].d

EarlierDescriptorsKept ==
    /\ Len(docs') >= Len(docs)
    /\ \A i \in DOMAIN docs : docs'[i] = docs[i]

\* C17: NewDocType(T, M) called again returns a descriptor equal to the one it
\* returned before; the fields of a descriptor stand in the order in which the
\* struct declares them, those of an embedded struct where the embedded field
\* stands; and a call, for whatever method, leaves the descriptors returned
\* earlier as they were.
C17_DescriptorsDeterministicInDeclarationOrder ==
    /\ [][EarlierDescriptorsKept]_vars
    /\ [](SameDescriptors
            /\ \A i \in DOMAIN docs :
                    /\ docs[i].err = "" /\ docs[i].d # <<>>
                    /\ InDeclarationOrder(docs[i].typ, docs[i].d[1]))

\* Wrapper declares Head, the embedded Inner (A for POST, B for PUT) and Tail:
\* described for PUT and then for POST, the second descriptor has Head, A,
\* Tail and the first still has Head, B, Tail.
C17_Witness ==
    /\ Len(docs) = 2
    /\ docs[1].typ = "Wrapper" /\ docs[1].method = "PUT"
    /\ docs[2].typ = "Wrapper" /\ docs[2].method = "POST"
    /\ docs[1].d # <<>> /\ docs[2].d # <<>>
    /\ [k \in DOMAIN docs[1].d[1].Fields |-> docs[1].d[1].Fields[k].Name]
            = <<"Head", "B", "Tail">>
    /\ [k \in DOMAIN docs[2].d[1].Fields |-> docs[2].d[1].Fields[k].Name]
            = <<"Head", "A", "Tail">>

IncludedFor(field, method) ==
    IF method = "GET" \/ method = "" THEN field.json # "-"
    ELSE Tagged(field, method)

Present(d, name) == \E k \in DOMAIN d.Fields : d.Fields[k].Name = name

FieldNamed(d, name) == d.Fields[CHOOSE k \in DOMAIN d.Fields : d.Fields[k].Name = name]

FieldNames(d) == [k \in DOMAIN d.Fields |-> d.Fields[k].Name]

\* The fields of descriptor d, built from struct type typ for the method, are
\* those the tags include: a named field's own tags decide, a field of an
\* embedded struct needs the embedded field and itself included, and the same
\* holds one level down in the descriptor of a field of struct type.
FieldsAsTagged(typ, method, d) ==
    \A f \in FieldsOf(typ) :
        IF f.anon
        THEN \A g \in FieldsOf(f.type) :
                Present(d, g.name)
                    <=> (IncludedFor(f, method) /\ IncludedFor(g, method))
        ELSE /\ Present(d, f.name) <=> IncludedFor(f, method)
             /\ (Present(d, f.name) /\ Kind(f.type) = "struct") =>
                    \A g \in FieldsOf(f.type) :
                        Present(FieldNamed(d, f.name).Type, g.name)
                            <=> IncludedFor(g, method)

\* C18: a descriptor built for a method other than GET and the empty one has
\* a struct field exactly when the method is one of the comma-separated
\* entries of the field's methods tag; a descriptor built for GET or the empty
\* method has it exactly when the field is not tagged json:"-", whatever its
\* methods tag says.
C18_FieldIncludedIffTaggedOrNotExcluded ==
    \A i \in DOMAIN docs :
        docs[i].d # <<>> => FieldsAsTagged(docs[i].typ, docs[i].method, docs[i].d[1])

\* Holder described for POST and then for the empty method: ID, without a
\* methods tag, is only in the second descriptor, and Secret, tagged POST and
\* json:"-", only in the first.
C18_Witness ==
    /\ Len(docs) = 2
    /\ docs[1].typ = "Holder" /\ docs[1].method = "POST"
    /\ docs[2].typ = "Holder" /\ docs[2].method = ""
    /\ docs[1].d # <<>> /\ docs[2].d # <<>>
    /\ FieldNames(docs[1].d[1]) = <<"Sub", "Images", "Ref", "Secret">>
    /\ FieldNames(docs[2].d[1]) = <<"Sub", "Images", "Ref", "ID">>

\* The fields of struct type typ that the method includes and whose type is a
\* pointer other than the key type.
ForeignPointerFields(typ, method) ==
    {f \in FieldsOf(typ) :
        /\ ~f.anon
        /\ IncludedFor(f, method)
        /\ Kind(f.type) = "ptr"
        /\ f.type # keyType}

\* C19: NewDocType for a struct type with an included field whose type is a
\* pointer other than the key type returns an error and no descriptor.
C19_UnrepresentableFieldAbortsConstruction ==
    \A i \in DOMAIN docs :
        ForeignPointerFields(docs[i].typ, docs[i].method) # {}
            => docs[i].err # "" /\ docs[i].d = <<>>

\* NewDocType(Holder, POST), where Holder.Ref is a *Inner tagged POST: no
\* error, and a descriptor that has the field Ref, of kind pointer.
C19_Witness ==
    \E i \in DOMAIN docs :
        /\ docs[i].typ = "Holder" /\ docs[i].method = "POST"
        /\ ForeignPointerFields("Holder", "POST") # {}
        /\ docs[i].err = ""
        /\ docs[i].d # <<>>
        /\ Present(docs[i].d[1], "Ref")
        /\ FieldNamed(docs[i].d[1], "Ref").Type.Kind = "ptr"
        /\ FieldNamed(docs[i].d[1], "Ref").Type.typ = "*Inner"

(***************************************************************************)
(* The schemas ToJSONSchema projects.                                      *)
(***************************************************************************)
SignedIntegerKinds == {"int", "int8", "int16", "int32", "int64"}

FloatKinds == {"float32", "float64"}

Projected == schemaCall.called

\* C20: the projection of a type of a signed integer kind is the schema type
\* "integer", that of a type of a floating-point kind is "number", and no
\* projection fails with an error naming a type of one of these kinds.
C20_EveryIntegerAndFloatWidthTranslated ==
    Projected =>
        /\ Kind(schemaCall.typ) \in SignedIntegerKinds =>
                /\ schemaCall.err = ""
                /\ schemaCall.schema # <<>>
                /\ schemaCall.schema[1].Type = "integer"
        /\ Kind(schemaCall.typ) \in FloatKinds =>
                /\ schemaCall.err = ""
                /\ schemaCall.schema # <<>>
                /\ schemaCall.schema[1].Type = "number"
        /\ schemaCall.err # "" =>
                Kind(schemaCall.errTyp) \notin SignedIntegerKinds \cup FloatKinds

\* Stats, whose field Small is an int8 tagged PUT, projected for PUT: no
\* schema, and the error names int8.
C20_Witness ==
    /\ Projected
    /\ schemaCall.typ = "Stats" /\ schemaCall.method = "PUT"
    /\ schemaCall.err = "Untranslatable Go Type"
    /\ schemaCall.errTyp = "int8"
    /\ schemaCall.schema = <<>>

(***************************************************************************)
(* The classes ToJavaClasses emits.                                        *)
(***************************************************************************)
RECURSIVE BaseType(_)

\* The type itself, or the element type of a slice or the value type of a map.
BaseType(t) == IF Kind(t) \in {"slice", "map"} THEN BaseType(Elem(t)) ELSE t

\* The struct types, other than the time type, that the fields the method
\* includes of struct type t refer to, fields tagged skip left out.
ReferredTo(t, meth) ==
    {u \in {BaseType(f.field.type) :
                f \in {g \in Range(NewDocType(t, meth).Fields) : g.field.skip = ""}} :
        Kind(u) = "struct" /\ u # timeType}

RECURSIVE ReachableFrom(_, _)

ReachableFrom(types, meth) ==
    LET More(next) == IF next = types THEN types ELSE ReachableFrom(next, meth)
    IN  More(types \cup UNION {ReferredTo(t, meth) : t \in types})

Generated ==
    /\ javaCall.called
    /\ Kind(javaCall.typ) = "struct"
    /\ javaCall.err = ""

\* C21: when ToJavaClasses returns without error, the name of every struct
\* type reachable from the root is a key of the map; no name was stored for
\* two types; and the class under a name is the text stored when the name was
\* first emitted.
C21_EachReachableTypeEmittedOnceUnderItsName ==
    Generated =>
        /\ \A t \in ReachableFrom({javaCall.typ}, javaCall.meth) :
                /\ TypeName(t) \in DOMAIN javaCall.classes
                /\ \E i \in DOMAIN javaCall.emitted :
                        javaCall.emitted[i].name = TypeName(t)
        /\ \A i \in DOMAIN javaCall.emitted, j \in DOMAIN javaCall.emitted :
                javaCall.emitted[i].name = javaCall.emitted[j].name => i = j
        /\ \A i \in DOMAIN javaCall.emitted :
                (\A j \in 1..(i - 1) :
                    javaCall.emitted[j].name # javaCall.emitted[i].name)
                    => javaCall.classes[javaCall.emitted[i].name]
                            = javaCall.emitted[i].class

\* other.Club, whose field Local is a Club, generated for PUT: the class of
\* Club is stored under "Club" while other.Club's fields are walked, and then
\* other.Club's own class is stored under the same name.
C21_Witness ==
    /\ Generated
    /\ javaCall.typ = "other.Club" /\ javaCall.meth = "PUT"
    /\ \E i \in DOMAIN javaCall.emitted, j \in DOMAIN javaCall.emitted :
            /\ i < j
            /\ javaCall.emitted[i].name = "Club" /\ javaCall.emitted[i].of = "Club"
            /\ javaCall.emitted[j].name = "Club" /\ javaCall.emitted[j].of = "other.Club"
            /\ javaCall.classes["Club"] = javaCall.emitted[j].class
            /\ javaCall.classes["Club"] # javaCall.emitted[i].class

(***************************************************************************)
(* Requests served concurrently.                                           *)
(***************************************************************************)
OwnDecoratorsOnly ==
    \A c \in Clients :
        inflight[c].link # <<>> =>
            /\ \A i \in DOMAIN inflight[c].link[1].linkDecorators :
                    inflight[c].link[1].linkDecorators[i].id = c
            /\ inflight[c].link[1].baseHost = HostOf(c)

OwnContentOnly ==
    \A c \in Clients :
        /\ inflight[c].written # <<>> => inflight[c].written[1].by = c
        /\ inflight[c].at # "idle" =>
                /\ writers[inflight[c].w].httpW = c
                /\ writers[inflight[c].w].content # <<>> =>
                        writers[inflight[c].w].content[1].by = c

\* C22: however the runs serving different requests interleave, a link made
\* by a request's NewLink carries only decorators registered through that
\* request's DecorateLinks (and that request's host), and what is rendered to
\* a request's response is content set on that request's response writer.
C22_PerRequestStateNeverShared == OwnDecoratorsOnly /\ OwnContentOnly

\* c1 and c2 are served at the same time and both have registered a decorator
\* and set content: c1's link has c1's decorator alone and c1's response its
\* own content, while c2's run is still in its handler.
C22_Witness ==
    /\ inflight["c1"].at = "done"
    /\ inflight["c2"].at = "handler"
    /\ inflight["c1"].w > inflight["c2"].w
    /\ requests[inflight["c2"].r].linkDecorators = <<Decorator("c2", FALSE)>>
    /\ writers[inflight["c2"].w].content = <<[by |-> "c2"]>>
    /\ inflight["c1"].link # <<>>
    /\ inflight["c1"].link[1].linkDecorators = <<Decorator("c1", FALSE)>>
    /\ inflight["c1"].written = <<[by |-> "c1"]>>

(***************************************************************************)
(* The function createRoute registers.                                     *)
(***************************************************************************)
Dispatched == dispatch.ret # <<>>

\* C23: the function createRoute registers calls the resource's function once;
\* it sets content (the Item of the object returned) exactly when that
\* function returned a nil error and a non-nil object, and when it returned
\* an error it returns that error and sets no content.
C23_ContentSetIffNilErrorAndObject ==
    Dispatched =>
        /\ dispatch.invoked = 1
        /\ dispatch.content # <<>>
                <=> (dispatch.ret[1].err = NilErr /\ dispatch.ret[1].obj # "nil")
        /\ dispatch.content # <<>> => dispatch.content = <<"Item", dispatch.ret[1].obj>>
        /\ dispatch.ret[1].err # NilErr =>
                dispatch.err = dispatch.ret[1].err /\ dispatch.content = <<>>
        /\ dispatch.ret[1].err = NilErr => dispatch.err = NilErr /\ dispatch.panic = ""

\* A Load function declared to return (Game, error), Game being a struct with
\* an Item method, returns a Game and nil: the run panics in IsNil and no
\* content is set.
C23_Witness ==
    /\ Dispatched
    /\ dispatch.meth = "Load"
    /\ resourceFunc(resources[dispatch.re], "Load") = GameValueFunc
    /\ dispatch.ret[1] = [obj |-> "Game", err |-> NilErr]
    /\ dispatch.invoked = 1
    /\ dispatch.panic # ""
    /\ dispatch.content = <<>>

(***************************************************************************)
(* A field name exposed by two embedded structs.                           *)
(***************************************************************************)
\* The embedded fields of struct type typ, by index, that the method includes
\* and whose struct has an included field named n.
Exposing(typ, method, n) ==
    {i \in 1..NumField(typ) :
        /\ GoType(typ).fields[i].anon
        /\ IncludedFor(GoType(typ).fields[i], method)
        /\ \E g \in FieldsOf(GoType(typ).fields[i].type) :
                g.name = n /\ IncludedFor(g, method)}

\* The type of the field named n in the embedded struct declared last among
\* those exposing n.
LaterDeclared(typ, method, n) ==
    LET last == CHOOSE i \in Exposing(typ, method, n) :
                    \A j \in Exposing(typ, method, n) : j <= i
        field == CHOOSE g \in FieldsOf(GoType(typ).fields[last].type) : g.name = n
    IN  field.type

Collides(typ, method, n) == Cardinality(Exposing(typ, method, n)) > 1

SameDescriptorAsked ==
    /\ lookup.called
    /\ schemaCall.called
    /\ lookup.typ = schemaCall.typ
    /\ lookup.method = schemaCall.method
    /\ Collides(lookup.typ, lookup.method, lookup.n)

\* C24: when two embedded structs of a struct both expose a field named N for
\* the method, GetField(N) returns the field of the one declared later, and
\* the property N of the schema is that of the same field.
C24_LaterEmbeddedFieldWinsEverywhere ==
    SameDescriptorAsked =>
        /\ lookup.found
        /\ lookup.field[1].Type.typ = LaterDeclared(lookup.typ, lookup.method, lookup.n)
        /\ schemaCall.err = ""
        /\ schemaCall.schema[1].Properties[lookup.n]
                = [ToJSONSchema(NewDocType(LaterDeclared(lookup.typ, lookup.method,
                                                         lookup.n),
                                           lookup.method)).schema
                        EXCEPT !.Title = lookup.n]

\* Twin embeds Left (N int) and then Right (N string), both for POST:
\* GetField("N") returns Left's int field, and the schema's property N is
\* Right's string.
C24_Witness ==
    /\ SameDescriptorAsked
    /\ lookup.typ = "Twin" /\ lookup.method = "POST" /\ lookup.n = "N"
    /\ lookup.found
    /\ lookup.field[1].Type.typ = "int"
    /\ schemaCall.err = ""
    /\ schemaCall.schema[1].Properties["N"].Type = "string"

(***************************************************************************)
(* Termination of NewDocType.                                              *)
(***************************************************************************)
\* C25: every call NewDocType(T, M) returns, also for a struct type that
\* refers to itself, directly or through another struct, by a slice field or
\* a nested struct field.
C25_NewDocTypeTerminates ==
    (walk.status = "running") ~> (walk.status = "returned")

\* Tree has the field Children []Tree for POST: the call for POST ran out of
\* stack with Tree in the frames over and over.
C25_Witness ==
    /\ walk.status = "overflow"
    /\ walk.typ = "Tree"
    /\ walk.method = "POST"
    /\ Cardinality({i \in DOMAIN walk.stack :
                        walk.stack[i] = Frame("NewDocType", "Tree", 1)}) > 1

(***************************************************************************)
(* The filters, the handler and the post-processors of one request.        *)
(***************************************************************************)
\* The last request passed the content negotiation.
Accepted ==
    /\ resp.req # <<>>
    /\ resp.at = "done"
    /\ Negotiate(resp.req[1].accept, resp.req[1].paramAccept).refused = 0

\* The handler of the last request ran and returned.
ChainRan == Accepted /\ ~resp.panic /\ \E i \in DOMAIN resp.calls : resp.calls[i] = "handler"

ContentWrites == {i \in DOMAIN resp.writes : resp.writes[i].kind = "render"}

ErrorResponses == {i \in DOMAIN resp.writes : resp.writes[i].kind = "error"}

\* C26: when the error left by the handler and the post-processors is not
\* nil, one error response is written and no content is rendered: an error
\* response and a rendered body are never both written for one request.
C26_ErrorResponseExcludesContent ==
    ChainRan /\ resp.err # NilErr =>
        /\ resp.writes = <<HandleError(resp.err)>>
        /\ ContentWrites = {}

\* The handler set content and returned an error: the error response is
\* followed by the rendered content.
C26_Witness ==
    /\ ChainRan
    /\ resp.err # NilErr
    /\ resp.content = "item"
    /\ Len(resp.writes) = 2
    /\ resp.writes[1] = HandleError(resp.err)
    /\ resp.writes[2].kind = "render"

\* The filters that return an error or cont = false, by position.
Stopping == {i \in 1..resp.nf : filters[i].err # NilErr \/ ~filters[i].cont}

FirstStopping == CHOOSE i \in Stopping : \A j \in Stopping : i <= j

FilterIds(n) == [i \in 1..n |-> filters[i].id]

\* C27: the filters are called in the order they were registered; the handler
\* is called only after every filter returned (true, nil); the first filter
\* that returns an error or cont = false ends the request: no later filter,
\* no handler, no post-processor is called and no content is rendered, and an
\* error is answered with an error response.
C27_FiltersInOrderFirstStopEndsRequest ==
    Accepted =>
        IF Stopping = {}
        THEN /\ Len(resp.calls) > resp.nf
             /\ SubSeq(resp.calls, 1, resp.nf + 1) = FilterIds(resp.nf) \o <<"handler">>
        ELSE /\ resp.calls = FilterIds(FirstStopping)
             /\ resp.content = ""
             /\ ContentWrites = {}
             /\ resp.writes = IF filters[FirstStopping].err # NilErr
                              THEN <<HandleError(filters[FirstStopping].err)>>
                              ELSE <<>>

\* Three filters, the second returning (true, error): the first two were
\* called, the third and the handler were not, and the error was answered.
C27_Witness ==
    /\ Accepted
    /\ resp.nf = 3
    /\ FirstStopping = 2
    /\ filters[2].cont
    /\ resp.calls = <<filters[1].id, filters[2].id>>
    /\ resp.writes = <<HTTPError(<<"warned">>, 403)>>

\* The calls made after the handler's.
AfterHandler == SubSeq(resp.calls, resp.nf + 2, Len(resp.calls))

\* C28: the post-processors are called in the order they were registered,
\* the first with the handler's error and each other one with the error its
\* predecessor returned; no post-processor is called after the first that
\* returns cont = false; an error response is written exactly when the error
\* the last one called returned is not nil.
C28_PostProcsChainTheError ==
    ChainRan =>
        LET m == Len(resp.given)
            ret(i) == PostProcResult(postProcs[i], resp.given[i])
        IN  /\ m <= resp.np
            /\ AfterHandler = [i \in 1..m |-> postProcs[i].id]
            /\ m > 0 => resp.given[1] = resp.handlerErr
            /\ \A i \in 2..m : ret(i - 1).cont /\ resp.given[i] = ret(i - 1).err
            /\ m < resp.np => m > 0 /\ ~ret(m).cont
            /\ resp.err = IF m = 0 THEN resp.handlerErr ELSE ret(m).err
            /\ resp.err # NilErr =>
                    1 \in ErrorResponses /\ resp.writes[1] = HandleError(resp.err)
            /\ resp.writes = (IF resp.err # NilErr THEN <<HandleError(resp.err)>>
                              ELSE <<>>) \o resp.rendered
            /\ \A i \in DOMAIN resp.rendered :
                    resp.rendered[i].kind = "error" => resp.content = "unrenderable"

\* Three post-processors after a handler that failed: the first turned the
\* error into another, the second got that one and returned cont = false, the
\* third was not called, and the error response is for the second's error.
C28_Witness ==
    /\ ChainRan
    /\ resp.np = 3
    /\ Len(resp.given) = 2
    /\ resp.handlerErr # NilErr
    /\ resp.given[2] # resp.given[1]
    /\ resp.err = resp.given[2]
    /\ resp.writes = <<HandleError(resp.given[2])>>

(***************************************************************************)
(* The resources list.                                                     *)
(***************************************************************************)
\* The step is a HandleResource call.
ResourceHandled == regCall'.n # regCall.n /\ regCall'.op = "HandleResource"

\* C29: a HandleResource call that returns adds its resource to the resources
\* list, and every resource in the list has a Type, also one that binds only
\* Listers; a call that panics adds nothing.
C29_RecordedResourcesHaveAType ==
    [][ResourceHandled =>
            /\ resources' = IF regCall'.panic # "" THEN resources
                            ELSE Append(resources, regCall'.out[1])
            /\ \A i \in DOMAIN resources' : resources'[i].Type # ""]_vars

\* A resource with a lister and no Create, Update, Delete or Load was handled
\* without a panic and is in the list with no Type.
C29_Witness ==
    /\ regCall.op = "HandleResource"
    /\ regCall.panic = ""
    /\ resources # <<>>
    /\ resources[Len(resources)] = regCall.out[1]
    /\ regCall.out[1].Listers # <<>>
    /\ \A meth \in Slots : resourceFunc(regCall.out[1], meth) = NoFunc
    /\ regCall.out[1].Type = ""

(***************************************************************************)
(* Element IDs of concurrent renders.                                      *)
(***************************************************************************)
\* No two increments returned the same value and no two elements were given
\* the same ID.
DistinctIDs ==
    \A i, j \in DOMAIN issued :
        i # j => issued[i].n # issued[j].n /\ issued[i].id # issued[j].id

\* C30: however the Link.HTMLNode calls of concurrent renders interleave, the
\* IDs of the forms and buttons they make are all distinct: no two increments
\* of nextElementID return the same value, and the counter never decreases.
C30_ElementIDsDistinct ==
    [](DistinctIDs) /\ [][nextElementID' >= nextElementID]_vars

\* A form and a button of different clients have got their IDs, and both
\* clients are at the increment of a further call at once.
C30_Witness ==
    /\ \A c \in Clients : rendering[c].at = "element"
    /\ \E i, j \in DOMAIN issued :
            /\ issued[i].by # issued[j].by
            /\ issued[i].el = "form"
            /\ issued[j].el = "button"
    /\ nextElementID = Len(issued)

====
